---- MODULE Spec2Model ----
(***************************************************************************)
(* Clinica SaudeViva: the appointment scheduler of src/src/scheduler.py    *)
(* over the JSON file of src/src/storage.py.                               *)
(*                                                                         *)
(* Texts (data_str, hora_str, data_hora_inicio) are sequences of           *)
(* one-character strings, so that datetime.fromisoformat and               *)
(* datetime.isoformat are computed character by character.  A message is   *)
(* [fmt, args]: the f-string with {} for each substitution (accents        *)
(* dropped) and the texts substituted, in order.                           *)
(***************************************************************************)
EXTENDS Integers, Sequences, FiniteSets, TLC

VARIABLES arquivo, chamada, ret, nloads, nsaves, antes

vars == <<arquivo, chamada, ret, nloads, nsaves, antes>>

(***************************************************************************)
(* Bounds of the model.                                                    *)
(***************************************************************************)
\* the largest number of records the file is let grow to
MaxConsultas == 2
\* the largest id a cancel call is tried with, beyond MaxConsultas
MaxIdExtra == 1
\* the longest list handed to check_availability in SpecAvail
MaxLista == 2
\* the largest number of loads the callers of SpecCorrida make together
MaxCargas == 3

(***************************************************************************)
(* datetime: the part of the standard library the scheduler calls.         *)
(* A datetime is [year, month, day, hour, minute, second, aware,           *)
(* utcoffset]; utcoffset is in minutes and 0 for a naive datetime.         *)
(***************************************************************************)
Digits == <<"0", "1", "2", "3", "4", "5", "6", "7", "8", "9">>

IsDigit(c) == c \in {"0", "1", "2", "3", "4", "5", "6", "7", "8", "9"}

DigitVal(c) ==
    CASE c = "0" -> 0 [] c = "1" -> 1 [] c = "2" -> 2 [] c = "3" -> 3
      [] c = "4" -> 4 [] c = "5" -> 5 [] c = "6" -> 6 [] c = "7" -> 7
      [] c = "8" -> 8 [] c = "9" -> 9

DigitChar(n) == Digits[n + 1]

\* int(s[i:i+2]) for two digit characters
Int2(s, i) == DigitVal(s[i]) * 10 + DigitVal(s[i + 1])

Int4(s, i) == Int2(s, i) * 100 + Int2(s, i + 2)

AllDigits(s, i, n) == \A k \in i..(i + n - 1) : k <= Len(s) /\ IsDigit(s[k])

\* "%02d" % n and "%04d" % n
Pad2(n) == <<DigitChar(n \div 10), DigitChar(n % 10)>>

Pad4(n) == Pad2(n \div 100) \o Pad2(n % 100)

IsLeap(y) == y % 4 = 0 /\ (y % 100 # 0 \/ y % 400 = 0)

DaysInMonth(y, m) ==
    IF m = 2 THEN (IF IsLeap(y) THEN 29 ELSE 28)
    ELSE IF m \in {4, 6, 9, 11} THEN 30 ELSE 31

DaysBeforeYear(y) ==
    (y - 1) * 365 + (y - 1) \div 4 - (y - 1) \div 100 + (y - 1) \div 400

\* the days of a common year before the first of each month
DAYS_BEFORE_MONTH == <<0, 31, 59, 90, 120, 151, 181, 212, 243, 273, 304, 334>>

DaysBeforeMonth(y, m) ==
    DAYS_BEFORE_MONTH[m] + (IF m > 2 /\ IsLeap(y) THEN 1 ELSE 0)

\* date.toordinal(): 0001-01-01 is day 1
ToOrdinal(y, m, d) == DaysBeforeYear(y) + DaysBeforeMonth(y, m) + d

\* date.fromordinal(n), as [year, month, day]
YearMonthDay(y, m, r1) ==
    [year |-> y, month |-> m, day |-> r1 - DaysBeforeMonth(y, m) + 1]

YearDay(y, r1, guess) ==
    YearMonthDay(y, IF DaysBeforeMonth(y, guess) > r1 THEN guess - 1 ELSE guess, r1)

Cycles(n400, n100, n4, n1, r1) ==
    IF n1 = 4 \/ n100 = 4
    THEN [year |-> n400 * 400 + n100 * 100 + n4 * 4 + n1, month |-> 12, day |-> 31]
    ELSE YearDay(n400 * 400 + 1 + n100 * 100 + n4 * 4 + n1, r1, (r1 + 50) \div 32)

FromOrdinal(n) ==
    Cycles((n - 1) \div 146097,
           ((n - 1) % 146097) \div 36524,
           (((n - 1) % 146097) % 36524) \div 1461,
           ((((n - 1) % 146097) % 36524) % 1461) \div 365,
           ((((n - 1) % 146097) % 36524) % 1461) % 365)

\* datetime.weekday(): Monday is 0, Sunday is 6
Weekday(dt) == (ToOrdinal(dt.year, dt.month, dt.day) + 6) % 7

\* datetime.time(): the time of day, without the offset
TimeOf(dt) == [hour |-> dt.hour, minute |-> dt.minute, second |-> dt.second]

TimeSecs(t) == t.hour * 3600 + t.minute * 60 + t.second

\* t1 <= t2 on datetime.time values
TimeLeq(t1, t2) == TimeSecs(t1) <= TimeSecs(t2)

\* dt + timedelta(minutes=mins), carrying into the date
MkDatetime(ymd, secs, aware, utcoffset) ==
    [year |-> ymd.year, month |-> ymd.month, day |-> ymd.day,
     hour |-> secs \div 3600, minute |-> (secs % 3600) \div 60,
     second |-> secs % 60, aware |-> aware, utcoffset |-> utcoffset]

DtAddSecs(dt, total) ==
    MkDatetime(FromOrdinal(ToOrdinal(dt.year, dt.month, dt.day) + total \div 86400),
               total % 86400, dt.aware, dt.utcoffset)

DtAdd(dt, mins) == DtAddSecs(dt, TimeSecs(TimeOf(dt)) + mins * 60)

\* the instant a datetime names, as <<day, second of day>>; an aware datetime
\* is taken to UTC
InstantOf(dt, total) ==
    <<ToOrdinal(dt.year, dt.month, dt.day) + total \div 86400, total % 86400>>

Instant(dt) == InstantOf(dt, TimeSecs(TimeOf(dt)) - dt.utcoffset * 60)

\* both naive or both aware: otherwise < raises TypeError
Comparable(a, b) == a.aware = b.aware

\* a < b, for comparable datetimes
PairLess(ia, ib) == ia[1] < ib[1] \/ (ia[1] = ib[1] /\ ia[2] < ib[2])

DtLess(a, b) == PairLess(Instant(a), Instant(b))

\* the index of the first "+" or "-" of s at or after i, 0 if none
RECURSIVE FindSign(_, _)
FindSign(s, i) ==
    IF i > Len(s) THEN 0
    ELSE IF s[i] \in {"+", "-"} THEN i
    ELSE FindSign(s, i + 1)

\* HH[:MM[:SS]] : the shape only
TimeShapeOk(t) ==
    \/ Len(t) = 2 /\ AllDigits(t, 1, 2)
    \/ Len(t) = 5 /\ AllDigits(t, 1, 2) /\ t[3] = ":" /\ AllDigits(t, 4, 2)
    \/ /\ Len(t) = 8
       /\ AllDigits(t, 1, 2) /\ t[3] = ":" /\ AllDigits(t, 4, 2)
       /\ t[6] = ":" /\ AllDigits(t, 7, 2)

TimeFields(t) ==
    [hour |-> Int2(t, 1),
     minute |-> IF Len(t) >= 5 THEN Int2(t, 4) ELSE 0,
     second |-> IF Len(t) >= 8 THEN Int2(t, 7) ELSE 0]

Midnight == [hour |-> 0, minute |-> 0, second |-> 0]

\* YYYY-MM-DD : the shape only
DateShapeOk(s) ==
    /\ Len(s) >= 10
    /\ AllDigits(s, 1, 4) /\ s[5] = "-" /\ AllDigits(s, 6, 2)
    /\ s[8] = "-" /\ AllDigits(s, 9, 2)

\* [+-]HH:MM
ZoneOk(z) ==
    Len(z) = 5 /\ TimeShapeOk(z) /\ Int2(z, 1) < 24 /\ Int2(z, 4) < 60

ZoneOffset(signch, z) ==
    (IF signch = "-" THEN -1 ELSE 1) * (Int2(z, 1) * 60 + Int2(z, 4))

ValueError == [ok |-> FALSE]

\* the range checks of the datetime constructor
MkParsed(y, m, d, t, aware, off) ==
    IF \/ y < 1 \/ m < 1 \/ m > 12 \/ d < 1 \/ d > DaysInMonth(y, m)
       \/ t.hour > 23 \/ t.minute > 59 \/ t.second > 59
    THEN ValueError
    ELSE [ok |-> TRUE,
          dt |-> [year |-> y, month |-> m, day |-> d, hour |-> t.hour,
                  minute |-> t.minute, second |-> t.second, aware |-> aware,
                  utcoffset |-> off]]

ParseZoned(s, tstr, signch, zstr) ==
    IF TimeShapeOk(tstr) /\ ZoneOk(zstr)
    THEN MkParsed(Int4(s, 1), Int2(s, 6), Int2(s, 9), TimeFields(tstr), TRUE,
                  ZoneOffset(signch, zstr))
    ELSE ValueError

ParseTime(s, rest, sign) ==
    IF sign = 0
    THEN IF TimeShapeOk(rest)
         THEN MkParsed(Int4(s, 1), Int2(s, 6), Int2(s, 9), TimeFields(rest),
                       FALSE, 0)
         ELSE ValueError
    ELSE ParseZoned(s, SubSeq(rest, 1, sign - 1), rest[sign],
                    SubSeq(rest, sign + 1, Len(rest)))

ParseTail(s, rest) == ParseTime(s, rest, FindSign(rest, 1))

\* datetime.fromisoformat(s) on the extended ISO form
\* YYYY-MM-DD[*HH[:MM[:SS]][(+|-)HH:MM]], which every CPython from 3.7 on
\* reads the same way; [ok |-> FALSE] stands for ValueError.  The character
\* at position 11 is the separator and may be anything.
fromisoformat(s) ==
    IF ~DateShapeOk(s) THEN ValueError
    ELSE IF Len(s) = 10
    THEN MkParsed(Int4(s, 1), Int2(s, 6), Int2(s, 9), Midnight, FALSE, 0)
    ELSE ParseTail(s, SubSeq(s, 12, Len(s)))

\* datetime.isoformat(): YYYY-MM-DDTHH:MM:SS, then +HH:MM when aware
FormatOffset(signch, a) ==
    <<signch>> \o Pad2(a \div 60) \o <<":">> \o Pad2(a % 60)

isoformat(dt) ==
    Pad4(dt.year) \o <<"-">> \o Pad2(dt.month) \o <<"-">> \o Pad2(dt.day)
    \o <<"T">> \o Pad2(dt.hour) \o <<":">> \o Pad2(dt.minute)
    \o <<":">> \o Pad2(dt.second)
    \o (IF ~dt.aware THEN <<>>
        ELSE IF dt.utcoffset < 0 THEN FormatOffset("-", -dt.utcoffset)
        ELSE FormatOffset("+", dt.utcoffset))

\* time.strftime('%H:%M')
StrfHM(t) == Pad2(t.hour) \o <<":">> \o Pad2(t.minute)

(***************************************************************************)
(* scheduler.py: the business rules.                                       *)
(***************************************************************************)
CLINIC_OPEN == [hour |-> 8, minute |-> 0, second |-> 0]

CLINIC_CLOSE == [hour |-> 18, minute |-> 0, second |-> 0]

\* timedelta(minutes=30)
CONSULTA_DURATION == 30

Msg(fmt, args) == [fmt |-> fmt, args |-> args]

\* the empty string
SemMsg == Msg("", <<>>)

MsgSegundaASexta ==
    Msg("Agendamentos sao permitidos apenas de segunda a sexta.", <<>>)

MsgHorario ==
    Msg("O horario deve ser entre {} e {}.",
        <<StrfHM(CLINIC_OPEN), StrfHM(CLINIC_CLOSE)>>)

\* mutant: the appointment must end strictly before closing
DentroDoExpedienteEstrito(start_time, end_time) ==
    TimeLeq(CLINIC_OPEN, start_time) /\ TimeSecs(end_time) < TimeSecs(CLINIC_CLOSE)

\* the comparison of line 56, on the start and the end time of day
DentroDoExpediente(start_time, end_time) ==
    TimeLeq(CLINIC_OPEN, start_time) /\ TimeLeq(end_time, CLINIC_CLOSE)

\* mutant: the time of day is checked before the day of the week
HorarioAntesDoDia(dt_consulta) ==
    IF ~(TimeLeq(CLINIC_OPEN, TimeOf(dt_consulta))
         /\ TimeLeq(TimeOf(DtAdd(dt_consulta, CONSULTA_DURATION)), CLINIC_CLOSE))
    THEN [valid |-> FALSE, msg |-> MsgHorario]
    ELSE IF Weekday(dt_consulta) >= 5
    THEN [valid |-> FALSE, msg |-> MsgSegundaASexta]
    ELSE [valid |-> TRUE, msg |-> SemMsg]

\* is_within_working_hours(dt_consulta) -> (bool, str)
is_within_working_hours(dt_consulta) ==
    IF Weekday(dt_consulta) >= 5
    THEN [valid |-> FALSE, msg |-> MsgSegundaASexta]
    ELSE IF DentroDoExpediente(TimeOf(dt_consulta),
                               TimeOf(DtAdd(dt_consulta, CONSULTA_DURATION)))
    THEN [valid |-> TRUE, msg |-> SemMsg]
    ELSE [valid |-> FALSE, msg |-> MsgHorario]

MsgConflito(paciente) ==
    Msg("Horario em conflito com a consulta de {}.", <<paciente>>)

\* mutant: intervals that only touch count as overlapping
SobrepoeFechado(dt_consulta_inicio, dt_consulta_fim, inicio_existente, fim_existente) ==
    /\ ~DtLess(fim_existente, dt_consulta_inicio)
    /\ ~DtLess(dt_consulta_fim, inicio_existente)

\* mutant: only the first half of the test, the candidate starts before the
\* existing appointment ends
SobrepoeMetade(dt_consulta_inicio, dt_consulta_fim, inicio_existente, fim_existente) ==
    /\ DtLess(dt_consulta_inicio, fim_existente)
    /\ DtLess(inicio_existente, dt_consulta_inicio)

\* the overlap test of check_availability: (InicioA < FimB) e (FimA > InicioB)
Sobrepoe(dt_consulta_inicio, dt_consulta_fim, inicio_existente, fim_existente) ==
    /\ DtLess(dt_consulta_inicio, fim_existente)
    /\ DtLess(inicio_existente, dt_consulta_fim)

\* one pass of the loop body of check_availability on a record that is not
\* cancelled: "raise" stands for the TypeError of comparing a naive with an
\* aware datetime, "conflict" for the return inside the loop
Compara(dt_consulta_inicio, dt_consulta_fim, inicio_existente, fim_existente) ==
    IF ~Comparable(dt_consulta_inicio, fim_existente) THEN "raise"
    ELSE IF Sobrepoe(dt_consulta_inicio, dt_consulta_fim,
                     inicio_existente, fim_existente)
    THEN "conflict"
    ELSE "next"

ComparaCom(dt_consulta_inicio, dt_consulta_fim, inicio_existente) ==
    Compara(dt_consulta_inicio, dt_consulta_fim, inicio_existente,
            DtAdd(inicio_existente, CONSULTA_DURATION))

RECURSIVE CheckFrom(_, _, _, _)

Decide(consultas, dt_consulta_inicio, dt_consulta_fim, i, passo) ==
    IF passo = "raise"
    THEN [raised |-> TRUE, available |-> FALSE, msg |-> SemMsg]
    ELSE IF passo = "conflict"
    THEN [raised |-> FALSE, available |-> FALSE,
          msg |-> MsgConflito(consultas[i].paciente)]
    ELSE CheckFrom(consultas, dt_consulta_inicio, dt_consulta_fim, i + 1)

\* the loop of check_availability from record i on
CheckFrom(consultas, dt_consulta_inicio, dt_consulta_fim, i) ==
    IF i > Len(consultas)
    THEN [raised |-> FALSE, available |-> TRUE, msg |-> SemMsg]
    ELSE IF consultas[i].status = "cancelada"
    THEN CheckFrom(consultas, dt_consulta_inicio, dt_consulta_fim, i + 1)
    ELSE Decide(consultas, dt_consulta_inicio, dt_consulta_fim, i,
                ComparaCom(dt_consulta_inicio, dt_consulta_fim,
                           fromisoformat(consultas[i].data_hora_inicio).dt))

\* mutant: the loop without the skip of cancelled records
RECURSIVE CheckSemPular(_, _, _, _)
CheckSemPular(consultas, dt_consulta_inicio, dt_consulta_fim, i) ==
    IF i > Len(consultas)
    THEN [raised |-> FALSE, available |-> TRUE, msg |-> SemMsg]
    ELSE IF ComparaCom(dt_consulta_inicio, dt_consulta_fim,
                       fromisoformat(consultas[i].data_hora_inicio).dt)
            = "conflict"
    THEN [raised |-> FALSE, available |-> FALSE,
          msg |-> MsgConflito(consultas[i].paciente)]
    ELSE CheckSemPular(consultas, dt_consulta_inicio, dt_consulta_fim, i + 1)

CheckAvailabilitySemPular(consultas, dt_consulta_inicio) ==
    CheckSemPular(consultas, dt_consulta_inicio,
                  DtAdd(dt_consulta_inicio, CONSULTA_DURATION), 1)

\* mutant: the list is gone through from its last record to its first
CheckAvailabilityInverso(consultas, dt_consulta_inicio) ==
    CheckFrom([i \in 1..Len(consultas) |-> consultas[Len(consultas) + 1 - i]],
              dt_consulta_inicio, DtAdd(dt_consulta_inicio, CONSULTA_DURATION), 1)

\* check_availability(consultas, dt_consulta_inicio) -> (bool, str)
check_availability(consultas, dt_consulta_inicio) ==
    CheckFrom(consultas, dt_consulta_inicio,
              DtAdd(dt_consulta_inicio, CONSULTA_DURATION), 1)

(***************************************************************************)
(* storage.py: the text of consultas.json.  json.dump(consultas, f,        *)
(* indent=4, ensure_ascii=False) writes a list of dicts as text and        *)
(* json.load(f) reads the text back.  A text is a sequence of characters.  *)
(***************************************************************************)
\* the keys of a record, in the order agendar_consulta inserts them
Campos == <<"id", "paciente", "data_hora_inicio", "duracao_min", "status">>

\* the characters of the keys and of the two status values
Letras(s) ==
    CASE s = "id" -> <<"i", "d">>
      [] s = "paciente" -> <<"p", "a", "c", "i", "e", "n", "t", "e">>
      [] s = "data_hora_inicio" ->
             <<"d", "a", "t", "a", "_", "h", "o", "r", "a", "_",
               "i", "n", "i", "c", "i", "o">>
      [] s = "duracao_min" ->
             <<"d", "u", "r", "a", "c", "a", "o", "_", "m", "i", "n">>
      [] s = "status" -> <<"s", "t", "a", "t", "u", "s">>
      [] s = "marcada" -> <<"m", "a", "r", "c", "a", "d", "a">>
      [] s = "cancelada" -> <<"c", "a", "n", "c", "e", "l", "a", "d", "a">>

\* the key or status value that has these characters; the characters
\* themselves if none has
Atomo(texto) ==
    IF \E s \in {"id", "paciente", "data_hora_inicio", "duracao_min", "status",
                 "marcada", "cancelada"} : Letras(s) = texto
    THEN CHOOSE s \in {"id", "paciente", "data_hora_inicio", "duracao_min",
                       "status", "marcada", "cancelada"} : Letras(s) = texto
    ELSE texto

Espacos(n) == [i \in 1..n |-> " "]

\* mutant: no character is escaped
EscapeCharNenhum(ch) == <<ch>>

\* json.encoder, ensure_ascii=False: the quote, the backslash and the control
\* characters are escaped, every other character is written as it is
EscapeChar(ch) ==
    CASE ch = "\"" -> <<"\\", "\"">>
      [] ch = "\\" -> <<"\\", "\\">>
      [] ch = "\n" -> <<"\\", "n">>
      [] ch = "\r" -> <<"\\", "r">>
      [] ch = "\t" -> <<"\\", "t">>
      [] OTHER -> <<ch>>

RECURSIVE Escape(_, _)
Escape(s, i) ==
    IF i > Len(s) THEN <<>> ELSE EscapeChar(s[i]) \o Escape(s, i + 1)

EncodeStr(s) == <<"\"">> \o Escape(s, 1) \o <<"\"">>

\* an int >= 0 in decimal
RECURSIVE EncodeInt(_)
EncodeInt(n) ==
    IF n < 10 THEN <<DigitChar(n)>>
    ELSE EncodeInt(n \div 10) \o <<DigitChar(n % 10)>>

EncodeValue(k, v) ==
    IF k \in {"id", "duracao_min"} THEN EncodeInt(v)
    ELSE IF k = "status" THEN EncodeStr(Letras(v))
    ELSE EncodeStr(v)

\* the members of the dict c from the j-th key on, one per line at indent 8
RECURSIVE EncodeMembers(_, _)
EncodeMembers(c, j) ==
    Espacos(8) \o EncodeStr(Letras(Campos[j])) \o <<":", " ">>
    \o EncodeValue(Campos[j], c[Campos[j]])
    \o (IF j = Len(Campos) THEN <<"\n">>
        ELSE <<",", "\n">> \o EncodeMembers(c, j + 1))

EncodeDict(c) ==
    <<"{", "\n">> \o EncodeMembers(c, 1) \o Espacos(4) \o <<"}">>

\* the dicts of the list from the i-th on, at indent 4
RECURSIVE EncodeItems(_, _)
EncodeItems(consultas, i) ==
    Espacos(4) \o EncodeDict(consultas[i])
    \o (IF i = Len(consultas) THEN <<"\n">>
        ELSE <<",", "\n">> \o EncodeItems(consultas, i + 1))

\* json.dump(consultas, f, indent=4, ensure_ascii=False)
json_dump(consultas) ==
    IF Len(consultas) = 0 THEN <<"[", "]">>
    ELSE <<"[", "\n">> \o EncodeItems(consultas, 1) \o <<"]">>

\* json.load raises json.JSONDecodeError
JSONDecodeError == [ok |-> FALSE, val |-> <<>>, pos |-> 0]

Decoded(val, pos) == [ok |-> TRUE, val |-> val, pos |-> pos]

\* the character at position i, "" past the end of the text
At(t, i) == IF i <= Len(t) THEN t[i] ELSE ""

\* the first position from i on that does not hold white space
RECURSIVE SkipWs(_, _)
SkipWs(t, i) ==
    IF i <= Len(t) /\ t[i] \in {" ", "\n", "\r", "\t"}
    THEN SkipWs(t, i + 1) ELSE i

\* the character an escape sequence \ch stands for, "" if it is none of the
\* sequences EscapeChar writes
Unescape(ch) ==
    CASE ch = "\"" -> "\""
      [] ch = "\\" -> "\\"
      [] ch = "/" -> "/"
      [] ch = "n" -> "\n"
      [] ch = "r" -> "\r"
      [] ch = "t" -> "\t"
      [] OTHER -> ""

\* json.decoder.scanstring from position i, inside the quotes
RECURSIVE ScanString(_, _, _)
ScanString(t, i, acc) ==
    IF i > Len(t) THEN JSONDecodeError
    ELSE IF t[i] = "\"" THEN Decoded(acc, i + 1)
    ELSE IF t[i] = "\\"
    THEN IF Unescape(At(t, i + 1)) = "" THEN JSONDecodeError
         ELSE ScanString(t, i + 2, Append(acc, Unescape(t[i + 1])))
    ELSE IF t[i] \in {"\n", "\r", "\t"} THEN JSONDecodeError
    ELSE ScanString(t, i + 1, Append(acc, t[i]))

DecodeStr(t, i) ==
    IF At(t, i) = "\"" THEN ScanString(t, i + 1, <<>>) ELSE JSONDecodeError

RECURSIVE ScanInt(_, _, _)
ScanInt(t, i, n) ==
    IF IsDigit(At(t, i)) THEN ScanInt(t, i + 1, n * 10 + DigitVal(t[i]))
    ELSE Decoded(n, i)

DecodeInt(t, i) ==
    IF IsDigit(At(t, i)) /\ ~(t[i] = "0" /\ IsDigit(At(t, i + 1)))
    THEN ScanInt(t, i, 0) ELSE JSONDecodeError

\* a value: a string or an int
DecodeValue(t, i) ==
    IF At(t, i) = "\"" THEN DecodeStr(t, i) ELSE DecodeInt(t, i)

\* json.decoder.JSONObject: the members from position i on, a key read
\* again taking the place of the one read before; a status value is the atom
\* it spells
RECURSIVE DecodeMembers(_, _, _)
AposMembro(t, acc, i) ==
    IF At(t, i) = "," THEN DecodeMembers(t, SkipWs(t, i + 1), acc)
    ELSE IF At(t, i) = "}" THEN Decoded(acc, i + 1)
    ELSE JSONDecodeError

AposValor(t, acc, k, v) ==
    IF ~v.ok THEN JSONDecodeError
    ELSE AposMembro(t, (k :> IF k = "status" THEN Atomo(v.val) ELSE v.val) @@ acc,
                    SkipWs(t, v.pos))

AposDoisPontos(t, acc, k, i) ==
    IF At(t, i) # ":" THEN JSONDecodeError
    ELSE AposValor(t, acc, k, DecodeValue(t, SkipWs(t, i + 1)))

AposChave(t, acc, chave) ==
    IF ~chave.ok THEN JSONDecodeError
    ELSE AposDoisPontos(t, acc, Atomo(chave.val), SkipWs(t, chave.pos))

DecodeMembers(t, i, acc) == AposChave(t, acc, DecodeStr(t, i))

\* a dict: {} or { members }
DecodeDict(t, i) ==
    IF At(t, i) # "{" THEN JSONDecodeError
    ELSE IF At(t, SkipWs(t, i + 1)) = "}"
    THEN Decoded(<<>>, SkipWs(t, i + 1) + 1)
    ELSE DecodeMembers(t, SkipWs(t, i + 1), <<>>)

\* json.decoder.JSONArray: the dicts from position i on; after the closing
\* bracket only white space may follow
RECURSIVE DecodeItems(_, _, _)
FimDoTexto(t, acc, i) ==
    IF i > Len(t) THEN Decoded(acc, i) ELSE JSONDecodeError

AposItem(t, acc, i) ==
    IF At(t, i) = "," THEN DecodeItems(t, SkipWs(t, i + 1), acc)
    ELSE IF At(t, i) = "]" THEN FimDoTexto(t, acc, SkipWs(t, i + 1))
    ELSE JSONDecodeError

AposDict(t, acc, c) ==
    IF ~c.ok THEN JSONDecodeError
    ELSE AposItem(t, Append(acc, c.val), SkipWs(t, c.pos))

DecodeItems(t, i, acc) == AposDict(t, acc, DecodeDict(t, i))

\* a list: [] or [ dicts ]
DecodeList(t, i) ==
    IF At(t, i) # "[" THEN JSONDecodeError
    ELSE IF At(t, SkipWs(t, i + 1)) = "]"
    THEN FimDoTexto(t, <<>>, SkipWs(t, SkipWs(t, i + 1) + 1))
    ELSE DecodeItems(t, SkipWs(t, i + 1), <<>>)

\* json.load(f) of a text that holds a list of dicts
json_load(t) == DecodeList(t, SkipWs(t, 1))

(***************************************************************************)
(* storage.py: the file consultas.json.  arquivo is [existe, conteudo];    *)
(* conteudo is the list that json.load reads from the text of the file.    *)
(* SpecStorage keeps the text itself.                                      *)
(***************************************************************************)
ArquivoAusente == [existe |-> FALSE, conteudo |-> <<>>]

\* load_consultas(): [] when the file does not exist
load_consultas(arq) == IF arq.existe THEN arq.conteudo ELSE <<>>

\* save_consultas(consultas): the file is overwritten completely
save_consultas(consultas) == [existe |-> TRUE, conteudo |-> consultas]

(***************************************************************************)
(* scheduler.py: the operations.  Each returns [ret, arquivo, nloads,      *)
(* nsaves]: what the call returns or raises, the file after it and the     *)
(* number of load_consultas and save_consultas calls it made.              *)
(***************************************************************************)
MsgFormato ==
    Msg("Formato de data ou hora invalido. Use AAAA-MM-DD e HH:MM.", <<>>)

MsgSucesso == Msg("Consulta agendada com sucesso!", <<>>)

\* Optional[Dict]: <<>> is None, <<c>> is the dict c
Retorno(consulta, msg) == [kind |-> "return", consulta |-> consulta, msg |-> msg]

\* the call ends with the exception exc instead of returning
Levanta(exc) == [kind |-> "raise", consulta |-> <<>>, msg |-> Msg(exc, <<>>)]

\* mutant: the id is the number of records, not that number plus one
NovaConsultaIdLen(consultas, paciente, dt_consulta) ==
    [id |-> Len(consultas),
     paciente |-> paciente,
     data_hora_inicio |-> isoformat(dt_consulta),
     duracao_min |-> 30,
     status |-> "marcada"]

\* mutant: the id is the number of scheduled records plus one
NovaConsultaIdMarcadas(consultas, paciente, dt_consulta) ==
    [id |-> Cardinality({i \in 1..Len(consultas) :
                            consultas[i].status = "marcada"}) + 1,
     paciente |-> paciente,
     data_hora_inicio |-> isoformat(dt_consulta),
     duracao_min |-> 30,
     status |-> "marcada"]

\* the dict agendar_consulta builds
NovaConsulta(consultas, paciente, dt_consulta) ==
    [id |-> Len(consultas) + 1,
     paciente |-> paciente,
     data_hora_inicio |-> isoformat(dt_consulta),
     duracao_min |-> 30,
     status |-> "marcada"]

\* step 3 of agendar_consulta: create and save
Criar(consultas, nova_consulta) ==
    [ret |-> Retorno(<<nova_consulta>>, MsgSucesso),
     arquivo |-> save_consultas(Append(consultas, nova_consulta)),
     nloads |-> 1, nsaves |-> 1]

\* mutant: on a conflict the new record is saved all the same
VerificarSalva(arq, paciente, dt_consulta, consultas, disp) ==
    IF disp.raised
    THEN [ret |-> Levanta("TypeError"), arquivo |-> arq, nloads |-> 1, nsaves |-> 0]
    ELSE IF ~disp.available
    THEN [ret |-> Retorno(<<>>, disp.msg),
          arquivo |-> save_consultas(
              Append(consultas, NovaConsulta(consultas, paciente, dt_consulta))),
          nloads |-> 1, nsaves |-> 1]
    ELSE Criar(consultas, NovaConsulta(consultas, paciente, dt_consulta))

\* step 2 of agendar_consulta, after check_availability returned disp
Verificar(arq, paciente, dt_consulta, consultas, disp) ==
    IF disp.raised
    THEN [ret |-> Levanta("TypeError"), arquivo |-> arq, nloads |-> 1, nsaves |-> 0]
    ELSE IF ~disp.available
    THEN [ret |-> Retorno(<<>>, disp.msg), arquivo |-> arq,
          nloads |-> 1, nsaves |-> 0]
    ELSE Criar(consultas, NovaConsulta(consultas, paciente, dt_consulta))

\* mutant: a missing file is not handled by the load; FileNotFoundError
\* leaves agendar_consulta
CarregarSemArquivo(arq, paciente, dt_consulta, consultas) ==
    IF ~arq.existe
    THEN [ret |-> Levanta("FileNotFoundError"), arquivo |-> arq,
          nloads |-> 1, nsaves |-> 0]
    ELSE Verificar(arq, paciente, dt_consulta, consultas,
                   check_availability(consultas, dt_consulta))

Carregar(arq, paciente, dt_consulta, consultas) ==
    Verificar(arq, paciente, dt_consulta, consultas,
              check_availability(consultas, dt_consulta))

\* mutant: the file is loaded and searched for a conflict before the
\* office hours are looked at
ValidarDepois(arq, paciente, dt_consulta, horario) ==
    IF ~check_availability(load_consultas(arq), dt_consulta).available
    THEN [ret |-> Retorno(<<>>,
                          check_availability(load_consultas(arq), dt_consulta).msg),
          arquivo |-> arq, nloads |-> 1, nsaves |-> 0]
    ELSE IF ~horario.valid
    THEN [ret |-> Retorno(<<>>, horario.msg), arquivo |-> arq,
          nloads |-> 1, nsaves |-> 0]
    ELSE Carregar(arq, paciente, dt_consulta, load_consultas(arq))

\* step 1 of agendar_consulta, after is_within_working_hours returned horario
Validar(arq, paciente, dt_consulta, horario) ==
    IF ~horario.valid
    THEN [ret |-> Retorno(<<>>, horario.msg), arquivo |-> arq,
          nloads |-> 0, nsaves |-> 0]
    ELSE Carregar(arq, paciente, dt_consulta, load_consultas(arq))

\* agendar_consulta after the try block: parsed is what fromisoformat gave
Interpretar(arq, paciente, parsed) ==
    IF ~parsed.ok
    THEN [ret |-> Retorno(<<>>, MsgFormato), arquivo |-> arq,
          nloads |-> 0, nsaves |-> 0]
    ELSE Validar(arq, paciente, parsed.dt, is_within_working_hours(parsed.dt))

\* agendar_consulta(paciente, data_str, hora_str)
agendar_consulta(arq, paciente, data_str, hora_str) ==
    Interpretar(arq, paciente, fromisoformat(data_str \o <<"T">> \o hora_str))

\* str(n) for 0 <= n <= 99
Str(n) == IF n < 10 THEN <<DigitChar(n)>> ELSE Pad2(n)

MsgCancelada(consulta_id, paciente) ==
    Msg("Consulta {} de {} cancelada.", <<Str(consulta_id), paciente>>)

MsgNaoEncontrada(consulta_id) ==
    Msg("Consulta ID {} nao encontrada ou ja cancelada.", <<Str(consulta_id)>>)

\* mutant: the loop does not break, the last matching record is taken
EncontraUltima(consultas, consulta_id, i) ==
    IF \A k \in i..Len(consultas) :
           ~(consultas[k].id = consulta_id /\ consultas[k].status = "marcada")
    THEN 0
    ELSE CHOOSE k \in i..Len(consultas) :
             /\ consultas[k].id = consulta_id /\ consultas[k].status = "marcada"
             /\ \A j \in (k + 1)..Len(consultas) :
                    ~(consultas[j].id = consulta_id
                      /\ consultas[j].status = "marcada")

\* mutant: the status of the record is not looked at
EncontraSemStatus(consultas, consulta_id, i) ==
    IF \A k \in i..Len(consultas) : consultas[k].id # consulta_id
    THEN 0
    ELSE CHOOSE k \in i..Len(consultas) :
             /\ consultas[k].id = consulta_id
             /\ \A j \in i..(k - 1) : consultas[j].id # consulta_id

\* the index of the record the loop of cancelar_consulta stops at, 0 if none
RECURSIVE Encontra(_, _, _)
Encontra(consultas, consulta_id, i) ==
    IF i > Len(consultas) THEN 0
    ELSE IF consultas[i].id = consulta_id /\ consultas[i].status = "marcada"
    THEN i
    ELSE Encontra(consultas, consulta_id, i + 1)

\* mutant: the record found is taken out of the list
CancelarRemove(arq, consulta_id, consultas, i) ==
    IF i # 0
    THEN [ret |-> [kind |-> "return", sucesso |-> TRUE,
                   msg |-> MsgCancelada(consulta_id, consultas[i].paciente)],
          arquivo |-> save_consultas(SubSeq(consultas, 1, i - 1)
                                     \o SubSeq(consultas, i + 1, Len(consultas))),
          nloads |-> 1, nsaves |-> 1]
    ELSE [ret |-> [kind |-> "return", sucesso |-> FALSE,
                   msg |-> MsgNaoEncontrada(consulta_id)],
          arquivo |-> arq, nloads |-> 1, nsaves |-> 0]

\* step 2 of cancelar_consulta, after the loop stopped at i
Cancelar(arq, consulta_id, consultas, i) ==
    IF i # 0
    THEN [ret |-> [kind |-> "return", sucesso |-> TRUE,
                   msg |-> MsgCancelada(consulta_id, consultas[i].paciente)],
          arquivo |-> save_consultas([consultas EXCEPT ![i].status = "cancelada"]),
          nloads |-> 1, nsaves |-> 1]
    ELSE [ret |-> [kind |-> "return", sucesso |-> FALSE,
                   msg |-> MsgNaoEncontrada(consulta_id)],
          arquivo |-> arq, nloads |-> 1, nsaves |-> 0]

Procurar(arq, consulta_id, consultas) ==
    Cancelar(arq, consulta_id, consultas, Encontra(consultas, consulta_id, 1))

\* cancelar_consulta(consulta_id) -> (bool, str)
cancelar_consulta(arq, consulta_id) ==
    Procurar(arq, consulta_id, load_consultas(arq))

EhMarcada(c) == c.status = "marcada"

\* mutant: the list is returned without the filter
ListarTodas(arq) ==
    [ret |-> [kind |-> "return", ativas |-> load_consultas(arq)],
     arquivo |-> arq, nloads |-> 1, nsaves |-> 0]

\* listar_consultas() -> the records with status 'marcada'
listar_consultas(arq) ==
    [ret |-> [kind |-> "return",
              ativas |-> SelectSeq(load_consultas(arq), EhMarcada)],
     arquivo |-> arq, nloads |-> 1, nsaves |-> 0]

(***************************************************************************)
(* The inputs.                                                             *)
(***************************************************************************)
Ana == <<"A", "n", "a">>
Bob == <<"B", "o", "b">>

Pacientes == {Ana, Bob}

\* 2025-11-10 is a Monday, 2025-11-14 a Friday, 2025-11-15 a Saturday,
\* 2025-11-16 a Sunday, 2025-12-31 a Wednesday
Seg10 == <<"2", "0", "2", "5", "-", "1", "1", "-", "1", "0">>
Sex14 == <<"2", "0", "2", "5", "-", "1", "1", "-", "1", "4">>
Sab15 == <<"2", "0", "2", "5", "-", "1", "1", "-", "1", "5">>
Dom16 == <<"2", "0", "2", "5", "-", "1", "1", "-", "1", "6">>
Qua31 == <<"2", "0", "2", "5", "-", "1", "2", "-", "3", "1">>
\* 25/11/2025 and 2025-02-30
DataBarras == <<"2", "5", "/", "1", "1", "/", "2", "0", "2", "5">>
DataImpossivel == <<"2", "0", "2", "5", "-", "0", "2", "-", "3", "0">>

HM(a, b, c, d) == <<a, b, ":", c, d>>

H0745 == HM("0", "7", "4", "5")
H0800 == HM("0", "8", "0", "0")
H0815 == HM("0", "8", "1", "5")
H0830 == HM("0", "8", "3", "0")
\* 2pm, 25:00 and 08:60
Hora2pm == <<"2", "p", "m">>
Hora2500 == HM("2", "5", "0", "0")
Hora0860 == HM("0", "8", "6", "0")
\* 08 (the hour alone), 08:00:30 and 08:00+03:00
HoraSo08 == <<"0", "8">>
Hora080030 == H0800 \o <<":", "3", "0">>
Hora0800Mais3 == H0800 \o <<"+", "0", "3", ":", "0", "0">>

\* the <<data_str, hora_str>> the scheduling operation is called with: three
\* slots of Monday morning of which the middle one overlaps the other two, the
\* same Monday at 07:45 (before opening, and overlapping 08:00), a Saturday,
\* texts that are not dates or times, and times that are not HH:MM
Entradas ==
    {<<Seg10, H0800>>, <<Seg10, H0815>>, <<Seg10, H0830>>, <<Seg10, H0745>>,
     <<Sab15, H0800>>,
     <<DataBarras, H0800>>, <<DataImpossivel, H0800>>, <<Seg10, Hora2pm>>,
     <<Seg10, Hora2500>>, <<Seg10, Hora0860>>,
     <<Seg10, HoraSo08>>, <<Seg10, Hora0800Mais3>>}

(***************************************************************************)
(* Spec: one caller, each call run to its end.                             *)
(***************************************************************************)
Nenhuma == [op |-> "nenhuma"]

Init ==
    /\ arquivo = ArquivoAusente
    /\ chamada = Nenhuma
    /\ ret = [kind |-> "nenhum"]
    /\ nloads = 0
    /\ nsaves = 0
    /\ antes = ArquivoAusente

Efeito(r) ==
    /\ ret' = r.ret
    /\ arquivo' = r.arquivo
    /\ nloads' = r.nloads
    /\ nsaves' = r.nsaves
    /\ antes' = arquivo

AgendarConsulta(paciente, data_str, hora_str) ==
    \E r \in {agendar_consulta(arquivo, paciente, data_str, hora_str)} :
        /\ Len(r.arquivo.conteudo) <= MaxConsultas
        /\ chamada' = [op |-> "agendar_consulta", paciente |-> paciente,
                       data_str |-> data_str, hora_str |-> hora_str]
        /\ Efeito(r)

CancelarConsulta(consulta_id) ==
    \E r \in {cancelar_consulta(arquivo, consulta_id)} :
        /\ chamada' = [op |-> "cancelar_consulta", consulta_id |-> consulta_id]
        /\ Efeito(r)

ListarConsultas ==
    /\ chamada' = [op |-> "listar_consultas"]
    /\ Efeito(listar_consultas(arquivo))

Next ==
    \/ \E paciente \in Pacientes, e \in Entradas :
           AgendarConsulta(paciente, e[1], e[2])
    \/ \E consulta_id \in 1..(MaxConsultas + MaxIdExtra) :
           CancelarConsulta(consulta_id)
    \/ ListarConsultas

Spec == Init /\ [][Next]_vars

(***************************************************************************)
(* SpecHours: is_within_working_hours applied to one timestamp.            *)
(***************************************************************************)
Ter11 == <<"2", "0", "2", "5", "-", "1", "1", "-", "1", "1">>

DatasHoras == {Seg10, Sex14, Sab15, Dom16, Qua31}

HorasDia ==
    {HM("0", "0", "0", "0"), HM("0", "7", "5", "9"), H0800, H0815,
     HM("1", "2", "0", "0"), HM("1", "7", "2", "9"), HM("1", "7", "3", "0"),
     HM("1", "7", "3", "1"), HM("1", "7", "5", "9"), HM("1", "8", "0", "0"),
     HM("2", "3", "2", "9"), HM("2", "3", "3", "0"), HM("2", "3", "4", "5"),
     HM("2", "3", "5", "9"),
     HM("0", "7", "5", "9") \o <<":", "5", "9">>, Hora080030,
     HM("1", "7", "3", "0") \o <<":", "3", "0">>, Hora0800Mais3}

\* the timestamps the texts above name
Momentos(datas, horas) ==
    {fromisoformat(d \o <<"T">> \o h).dt : d \in datas, h \in horas}

InitHours ==
    /\ arquivo = ArquivoAusente
    /\ chamada \in {[op |-> "entrada", dt_consulta |-> dt] :
                       dt \in Momentos(DatasHoras, HorasDia)}
    /\ ret = [kind |-> "nenhum"]
    /\ nloads = 0
    /\ nsaves = 0
    /\ antes = ArquivoAusente

IsWithinWorkingHours ==
    /\ chamada.op = "entrada"
    /\ chamada' = [chamada EXCEPT !.op = "is_within_working_hours"]
    /\ \E r \in {is_within_working_hours(chamada.dt_consulta)} :
           ret' = [kind |-> "return", valid |-> r.valid, msg |-> r.msg]
    /\ UNCHANGED <<arquivo, nloads, nsaves, antes>>

NextHours == IsWithinWorkingHours

SpecHours == InitHours /\ [][NextHours]_vars

\* the call of SpecHours has returned
HoursReturned == chamada.op = "is_within_working_hours"

\* the weekday of the dates above, from the calendar: Monday is 0
DiaDaSemana(dt) ==
    CASE dt.month = 11 /\ dt.day = 10 -> 0
      [] dt.month = 11 /\ dt.day = 11 -> 1
      [] dt.month = 11 /\ dt.day = 14 -> 4
      [] dt.month = 11 /\ dt.day = 15 -> 5
      [] dt.month = 11 /\ dt.day = 16 -> 6
      [] dt.month = 12 /\ dt.day = 31 -> 2

\* the time of day in seconds
SegundosDoDia(dt) == dt.hour * 3600 + dt.minute * 60 + dt.second

\* C2 (as claimed): every timestamp is_within_working_hours accepts is on a
\* Monday-Friday day, starts at or after 08:00 and ends, 30 minutes later, at
\* or before 18:00 of that same day: its start time of day is between 08:00
\* and 17:30.
C2_AcceptedWithinOfficeHours ==
    (HoursReturned /\ ret.valid) =>
        /\ DiaDaSemana(chamada.dt_consulta) \in 0..4
        /\ SegundosDoDia(chamada.dt_consulta) >= 8 * 3600
        /\ SegundosDoDia(chamada.dt_consulta) + 30 * 60 <= 18 * 3600

NomeiaLimites(msg) ==
    /\ \E i \in 1..Len(msg.args) : msg.args[i] = <<"0", "8", ":", "0", "0">>
    /\ \E i \in 1..Len(msg.args) : msg.args[i] = <<"1", "8", ":", "0", "0">>

\* C4: on a Saturday or a Sunday the answer is false with the
\* Monday-to-Friday reason whatever the time of day; a weekday timestamp that
\* fails gets the reason that names 08:00 and 18:00.
C4_WeekendReasonFirst ==
    HoursReturned =>
        /\ DiaDaSemana(chamada.dt_consulta) \in {5, 6}
              => (~ret.valid /\ ret.msg = MsgSegundaASexta)
        /\ (DiaDaSemana(chamada.dt_consulta) \in 0..4 /\ ~ret.valid)
              => (NomeiaLimites(ret.msg) /\ ret.msg # MsgSegundaASexta)

\* a Saturday at 18:00, a time of day that a weekday would be refused for
C4_Witness ==
    /\ HoursReturned
    /\ DiaDaSemana(chamada.dt_consulta) = 5
    /\ SegundosDoDia(chamada.dt_consulta) = 18 * 3600
    /\ ret.msg = MsgSegundaASexta

(***************************************************************************)
(* SpecAvail: check_availability applied to one list and one timestamp.    *)
(***************************************************************************)
\* the starts of the records: Monday 08:00, 08:30 and 23:45
InicioRegistros ==
    Momentos({Seg10}, {H0800, H0830, HM("2", "3", "4", "5")})

\* the candidate starts: Monday 07:45 to 09:00 and Tuesday 00:00 and 00:15
Candidatos ==
    Momentos({Seg10}, {H0745, H0800, H0815, H0830, HM("0", "9", "0", "0")})
    \cup Momentos({Ter11}, {HM("0", "0", "0", "0"), HM("0", "0", "1", "5")})

Registro(id, paciente, dt, status) ==
    [id |-> id, paciente |-> paciente, data_hora_inicio |-> isoformat(dt),
     duracao_min |-> 30, status |-> status]

\* the lists of n records, the record at position i with id i
ListasDe(n) ==
    {[i \in 1..n |-> Registro(i, f[i][1], f[i][2], f[i][3])] :
        f \in [1..n -> Pacientes \X InicioRegistros \X {"marcada", "cancelada"}]}

Listas == UNION {ListasDe(n) : n \in 0..MaxLista}

InitAvail ==
    /\ arquivo = ArquivoAusente
    /\ chamada \in {[op |-> "entrada", consultas |-> l, dt_consulta_inicio |-> dt] :
                       l \in Listas, dt \in Candidatos}
    /\ ret = [kind |-> "nenhum"]
    /\ nloads = 0
    /\ nsaves = 0
    /\ antes = ArquivoAusente

CheckAvailability ==
    /\ chamada.op = "entrada"
    /\ chamada' = [chamada EXCEPT !.op = "check_availability"]
    /\ \E r \in {check_availability(chamada.consultas, chamada.dt_consulta_inicio)} :
           ret' = [kind |-> IF r.raised THEN "raise" ELSE "return",
                   available |-> r.available, msg |-> r.msg]
    /\ UNCHANGED <<arquivo, nloads, nsaves, antes>>

NextAvail == CheckAvailability

SpecAvail == InitAvail /\ [][NextAvail]_vars

AvailReturned == chamada.op = "check_availability"

\* the instant of a timestamp of November 2025 in seconds from the start of
\* the month, an aware one taken to UTC
Segundos(dt) ==
    dt.day * 86400 + dt.hour * 3600 + dt.minute * 60 + dt.second
    - dt.utcoffset * 60

\* the start of a record, read off the characters of its data_hora_inicio
\* (YYYY-MM-DDTHH:MM:SS, then +HH:MM for an aware one)
InicioDe(c) ==
    [day |-> Int2(c.data_hora_inicio, 9), hour |-> Int2(c.data_hora_inicio, 12),
     minute |-> Int2(c.data_hora_inicio, 15),
     second |-> Int2(c.data_hora_inicio, 18),
     utcoffset |-> IF Len(c.data_hora_inicio) = 19 THEN 0
                   ELSE (IF c.data_hora_inicio[20] = "-" THEN -1 ELSE 1)
                        * (Int2(c.data_hora_inicio, 21) * 60
                           + Int2(c.data_hora_inicio, 24)),
     aware |-> Len(c.data_hora_inicio) > 19]

\* the half-open intervals [a, a + 30 min) and [b, b + 30 min) intersect
Intersecta(a, b) ==
    /\ Segundos(a) < Segundos(b) + 30 * 60
    /\ Segundos(a) + 30 * 60 > Segundos(b)

\* the records of a list that are not cancelled and whose interval the
\* candidate's intersects
EmConflito(consultas, dt) ==
    {i \in 1..Len(consultas) :
        /\ consultas[i].status # "cancelada"
        /\ Intersecta(dt, InicioDe(consultas[i]))}

NaoCancelada(c) == c.status # "cancelada"

\* the least of a non-empty set of positions
Primeira(posicoes) == CHOOSE i \in posicoes : \A j \in posicoes : i <= j

\* C5: check_availability answers unavailable exactly when some record that
\* is not cancelled has candidate < existing + 30 min and candidate + 30 min >
\* existing; a candidate that starts when a record ends, or ends when one
\* starts, is available; and the test is symmetric: the candidate conflicts
\* with a record exactly when the record's start, as a candidate, conflicts
\* with a record at the candidate's start.
C5_UnavailableIffOverlap ==
    AvailReturned =>
        /\ ret.kind = "return"
        /\ ~ret.available
              <=> EmConflito(chamada.consultas, chamada.dt_consulta_inicio) # {}
        /\ ret.available => ret.msg = SemMsg
        /\ \A i \in 1..Len(chamada.consultas) :
              LET c == chamada.consultas[i]
                  d == Segundos(chamada.dt_consulta_inicio) - Segundos(InicioDe(c))
              IN  /\ (Len(chamada.consultas) = 1 /\ d \in {30 * 60, -(30 * 60)})
                        => ret.available
                  /\ c.status = "marcada" =>
                        check_availability(<<c>>, chamada.dt_consulta_inicio).available
                        = check_availability(
                              <<Registro(1, c.paciente, chamada.dt_consulta_inicio,
                                         "marcada")>>,
                              fromisoformat(c.data_hora_inicio).dt).available

\* a record from 08:00 to 08:30 and a candidate at 08:30, and the other way
\* round
C5_Witness ==
    /\ AvailReturned
    /\ Len(chamada.consultas) = 1
    /\ chamada.consultas[1].status = "marcada"
    /\ Segundos(chamada.dt_consulta_inicio)
          - Segundos(InicioDe(chamada.consultas[1])) = 30 * 60
    /\ ret.available

\* C6: a cancelled record never makes check_availability report a conflict:
\* the answer is the one the list without its cancelled records gets, and a
\* list of cancelled records only is available at every start.
C6_CancelledNeverConflicts ==
    AvailReturned =>
        /\ [raised |-> ret.kind = "raise", available |-> ret.available,
            msg |-> ret.msg]
              = check_availability(SelectSeq(chamada.consultas, NaoCancelada),
                                   chamada.dt_consulta_inicio)
        /\ (\A i \in 1..Len(chamada.consultas) :
               chamada.consultas[i].status = "cancelada")
              => (ret.available /\ ret.msg = SemMsg)

\* a cancelled record at the candidate's very start, and no other record
C6_Witness ==
    /\ AvailReturned
    /\ Len(chamada.consultas) = 1
    /\ chamada.consultas[1].status = "cancelada"
    /\ Segundos(InicioDe(chamada.consultas[1]))
          = Segundos(chamada.dt_consulta_inicio)
    /\ ret.available

\* C16: when more than one record that is not cancelled conflicts with the
\* candidate, check_availability answers unavailable with the reason that
\* names the patient of the conflicting record that comes first in the list,
\* whatever the starts of the conflicting records.
C16_FirstConflictInOrder ==
    (AvailReturned
       /\ Cardinality(EmConflito(chamada.consultas,
                                 chamada.dt_consulta_inicio)) > 1) =>
        /\ ret.kind = "return"
        /\ ~ret.available
        /\ ret.msg = MsgConflito(
               chamada.consultas[Primeira(EmConflito(chamada.consultas,
                                                     chamada.dt_consulta_inicio))
                                ].paciente)

\* Bob's record at 08:30 comes before Ana's at 08:00 and the candidate at
\* 08:15 conflicts with both: the reason names Bob
C16_Witness ==
    /\ AvailReturned
    /\ Len(chamada.consultas) = 2
    /\ EmConflito(chamada.consultas, chamada.dt_consulta_inicio) = {1, 2}
    /\ chamada.consultas[1].paciente = Bob
    /\ chamada.consultas[2].paciente = Ana
    /\ Segundos(InicioDe(chamada.consultas[1]))
          > Segundos(InicioDe(chamada.consultas[2]))
    /\ ret.msg = MsgConflito(Bob)

(***************************************************************************)
(* The properties of Spec.                                                 *)
(***************************************************************************)
\* the last call was agendar_consulta
Agendou == chamada.op = "agendar_consulta"

\* what fromisoformat made of the texts of the last call
Interpretado == fromisoformat(chamada.data_str \o <<"T">> \o chamada.hora_str)

Marcadas(consultas) ==
    {i \in 1..Len(consultas) : consultas[i].status = "marcada"}

\* the scheduled records of a list whose interval the one starting at dt
\* intersects, both being naive or both aware
Conflitantes(consultas, dt) ==
    {i \in Marcadas(consultas) :
        /\ InicioDe(consultas[i]).aware = dt.aware
        /\ Intersecta(dt, InicioDe(consultas[i]))}

\* C1: any two distinct persisted records with status marcada have
\* half-open intervals [start, start + 30 min) that do not intersect (and
\* are both naive or both aware, so that their starts compare).
C1_ScheduledNeverOverlap ==
    \A i, j \in Marcadas(arquivo.conteudo) :
        i < j =>
            /\ InicioDe(arquivo.conteudo[i]).aware
                  = InicioDe(arquivo.conteudo[j]).aware
            /\ ~Intersecta(InicioDe(arquivo.conteudo[i]),
                           InicioDe(arquivo.conteudo[j]))

\* two scheduled records, the second starting when the first ends, after a
\* call that was refused
C1_Witness ==
    /\ Len(arquivo.conteudo) = 2
    /\ Marcadas(arquivo.conteudo) = {1, 2}
    /\ Segundos(InicioDe(arquivo.conteudo[2]))
          = Segundos(InicioDe(arquivo.conteudo[1])) + 30 * 60
    /\ Agendou
    /\ ret.consulta = <<>>
    /\ Interpretado.ok
    /\ Conflitantes(arquivo.conteudo, Interpretado.dt) = {1, 2}

\* the last call passed the parse, the office hours and the conflict check
Passou ==
    /\ Agendou
    /\ Interpretado.ok
    /\ is_within_working_hours(Interpretado.dt).valid
    /\ \A i \in Marcadas(antes.conteudo) :
          InicioDe(antes.conteudo[i]).aware = Interpretado.dt.aware
    /\ Conflitantes(antes.conteudo, Interpretado.dt) = {}

Ultima == arquivo.conteudo[Len(arquivo.conteudo)]

\* C7: a call that passes the parse, the office hours and the conflict check
\* saves once; the file then holds the loaded records, unchanged and in
\* order, and after them one record with id = number of loaded records + 1,
\* the given patient, the parsed start, duration 30 and status marcada; the
\* call returns that record with the success message.
C7_SuccessAppendsOne ==
    Passou =>
        /\ nsaves = 1
        /\ nloads = 1
        /\ arquivo.existe
        /\ Len(arquivo.conteudo) = Len(antes.conteudo) + 1
        /\ SubSeq(arquivo.conteudo, 1, Len(antes.conteudo)) = antes.conteudo
        /\ Ultima.id = Len(antes.conteudo) + 1
        /\ Ultima.paciente = chamada.paciente
        /\ SubSeq(Ultima.data_hora_inicio, 1, 10) = chamada.data_str
        /\ InicioDe(Ultima)
              = [day |-> Interpretado.dt.day, hour |-> Interpretado.dt.hour,
                 minute |-> Interpretado.dt.minute,
                 second |-> Interpretado.dt.second,
                 utcoffset |-> Interpretado.dt.utcoffset,
                 aware |-> Interpretado.dt.aware]
        /\ fromisoformat(Ultima.data_hora_inicio) = Interpretado
        /\ Ultima.duracao_min = 30
        /\ Ultima.status = "marcada"
        /\ DOMAIN Ultima = {"id", "paciente", "data_hora_inicio", "duracao_min",
                            "status"}
        /\ ret = Retorno(<<Ultima>>, MsgSucesso)

\* the second record of the file has just been appended after a cancelled one
C7_Witness ==
    /\ Passou
    /\ Len(antes.conteudo) = 1
    /\ antes.conteudo[1].status = "cancelada"
    /\ Len(arquivo.conteudo) = 2
    /\ Ultima.id = 2
    /\ Ultima.paciente = Bob

\* C8: when the parsed timestamp fails the office hours, the call returns no
\* record and the reason of is_within_working_hours as it is, and neither
\* loads nor saves, also when the slot overlaps a scheduled record.
C8_OutOfHoursBeforeRepository ==
    (Agendou /\ Interpretado.ok
       /\ ~is_within_working_hours(Interpretado.dt).valid) =>
        /\ ret = Retorno(<<>>, is_within_working_hours(Interpretado.dt).msg)
        /\ ret.msg \in {MsgSegundaASexta, MsgHorario}
        /\ nloads = 0
        /\ nsaves = 0
        /\ arquivo = antes

\* 07:45 is refused for the hour while a scheduled record at 08:00 overlaps it
C8_Witness ==
    /\ Agendou
    /\ Interpretado.ok
    /\ ret = Retorno(<<>>, MsgHorario)
    /\ Conflitantes(antes.conteudo, Interpretado.dt) # {}

FormatoEstrito(data_str, hora_str) ==
    /\ Len(data_str) = 10
    /\ \A k \in {1, 2, 3, 4, 6, 7, 9, 10} : IsDigit(data_str[k])
    /\ data_str[5] = "-" /\ data_str[8] = "-"
    /\ Int2(data_str, 6) \in 1..12
    /\ Int2(data_str, 9) \in 1..DaysInMonth(Int4(data_str, 1), Int2(data_str, 6))
    /\ Int4(data_str, 1) >= 1
    /\ Len(hora_str) = 5
    /\ \A k \in {1, 2, 4, 5} : IsDigit(hora_str[k])
    /\ hora_str[3] = ":"
    /\ Int2(hora_str, 1) <= 23
    /\ Int2(hora_str, 4) <= 59

\* C10 (as claimed): when data_str and hora_str are not a timestamp in the
\* strict YYYY-MM-DD / HH:MM form, the call returns no record and the
\* invalid-format reason, and neither loads nor saves.
C10_NonStrictFormatRejected ==
    (Agendou /\ ~FormatoEstrito(chamada.data_str, chamada.hora_str)) =>
        /\ ret = Retorno(<<>>, MsgFormato)
        /\ nloads = 0
        /\ nsaves = 0

(***************************************************************************)
(* SpecRepo: cancelar_consulta and listar_consultas called on a file that  *)
(* holds any list of records: ids may repeat in it, as they do after two   *)
(* callers scheduled from the same loaded list.                            *)
(***************************************************************************)
\* the start of the record at position i: Monday 08:00, 08:30, 09:00, ...
InicioNaPosicao(i) ==
    DtAdd(fromisoformat(Seg10 \o <<"T">> \o H0800).dt, CONSULTA_DURATION * (i - 1))

\* the lists of n records with ids in 1..MaxLista
ListasRepoDe(n) ==
    {[i \in 1..n |-> Registro(f[i][1], f[i][2], InicioNaPosicao(i), f[i][3])] :
        f \in [1..n -> (1..MaxLista) \X Pacientes \X {"marcada", "cancelada"}]}

ArquivosRepo ==
    {ArquivoAusente}
    \cup {save_consultas(l) : l \in UNION {ListasRepoDe(n) : n \in 0..MaxLista}}

InitRepo ==
    /\ arquivo \in ArquivosRepo
    /\ chamada = Nenhuma
    /\ ret = [kind |-> "nenhum"]
    /\ nloads = 0
    /\ nsaves = 0
    /\ antes = arquivo

NextRepo ==
    \/ \E consulta_id \in 1..(MaxLista + MaxIdExtra) :
           CancelarConsulta(consulta_id)
    \/ ListarConsultas

SpecRepo == InitRepo /\ [][NextRepo]_vars

\* the last call was cancelar_consulta
Cancelou == chamada.op = "cancelar_consulta"

\* the positions of the scheduled records with the given id
MarcadasComId(consultas, consulta_id) ==
    {i \in 1..Len(consultas) :
        consultas[i].id = consulta_id /\ consultas[i].status = "marcada"}

\* the text is one of the texts substituted into the message
Nomeia(msg, texto) == \E i \in 1..Len(msg.args) : msg.args[i] = texto

\* C11: when the loaded list holds a scheduled record with the given id,
\* cancelar_consulta saves once, returns success with a message that names
\* the patient of the first such record, and the file holds the loaded list
\* with the status of that record changed to cancelada: same length, every
\* other record and every other field of that record as they were.
C11_CancelFlipsFirst ==
    (Cancelou /\ MarcadasComId(antes.conteudo, chamada.consulta_id) # {}) =>
        LET k == Primeira(MarcadasComId(antes.conteudo, chamada.consulta_id))
        IN  /\ ret.kind = "return"
            /\ ret.sucesso
            /\ ret.msg = MsgCancelada(chamada.consulta_id,
                                      antes.conteudo[k].paciente)
            /\ Nomeia(ret.msg, antes.conteudo[k].paciente)
            /\ nloads = 1
            /\ nsaves = 1
            /\ arquivo.existe
            /\ Len(arquivo.conteudo) = Len(antes.conteudo)
            /\ \A i \in 1..Len(antes.conteudo) :
                  i # k => arquivo.conteudo[i] = antes.conteudo[i]
            /\ arquivo.conteudo[k].status = "cancelada"
            /\ \A campo \in {"id", "paciente", "data_hora_inicio", "duracao_min"} :
                  arquivo.conteudo[k][campo] = antes.conteudo[k][campo]
            /\ DOMAIN arquivo.conteudo[k] = DOMAIN antes.conteudo[k]

\* two scheduled records with id 1, Ana's before Bob's: Ana's is cancelled,
\* Bob's stays scheduled
C11_Witness ==
    /\ Cancelou
    /\ chamada.consulta_id = 1
    /\ Len(antes.conteudo) = 2
    /\ MarcadasComId(antes.conteudo, 1) = {1, 2}
    /\ antes.conteudo[1].paciente = Ana
    /\ antes.conteudo[2].paciente = Bob
    /\ ret.msg = MsgCancelada(1, Ana)
    /\ arquivo.conteudo[1].status = "cancelada"
    /\ arquivo.conteudo[2].status = "marcada"

\* C12: when no record of the loaded list has the given id with status
\* marcada (no record has the id, or those that have it are cancelled, as
\* after a successful cancel of that id), cancelar_consulta returns failure
\* with the one not-found-or-already-cancelled message, saves nothing and
\* leaves the file as it was.
C12_CancelNotFound ==
    (Cancelou /\ MarcadasComId(antes.conteudo, chamada.consulta_id) = {}) =>
        /\ ret.kind = "return"
        /\ ~ret.sucesso
        /\ ret.msg = MsgNaoEncontrada(chamada.consulta_id)
        /\ nloads = 1
        /\ nsaves = 0
        /\ arquivo = antes

\* the second cancel of id 1: the file holds its one record with id 1
\* cancelled and a scheduled record with id 2
C12_Witness ==
    /\ Cancelou
    /\ chamada.consulta_id = 1
    /\ ~ret.sucesso
    /\ Len(antes.conteudo) = 2
    /\ antes.conteudo[1].id = 1
    /\ antes.conteudo[1].status = "cancelada"
    /\ antes.conteudo[2].id = 2
    /\ antes.conteudo[2].status = "marcada"
    /\ arquivo = antes

\* the last call was listar_consultas
Listou == chamada.op = "listar_consultas"

\* C15: listar_consultas returns the scheduled records of the loaded list,
\* each once and in the order of the list: the k-th record returned is the
\* record at the k-th scheduled position; it saves nothing and the file is
\* as it was.
C15_ListReturnsScheduled ==
    Listou =>
        /\ ret.kind = "return"
        /\ Len(ret.ativas) = Cardinality(Marcadas(antes.conteudo))
        /\ \A k \in 1..Len(ret.ativas) :
              \E i \in Marcadas(antes.conteudo) :
                  /\ Cardinality({j \in Marcadas(antes.conteudo) : j <= i}) = k
                  /\ ret.ativas[k] = antes.conteudo[i]
        /\ nloads = 1
        /\ nsaves = 0
        /\ arquivo = antes

\* Bob's scheduled record with id 2 comes before Ana's cancelled record with
\* id 1: Bob's alone is returned
C15_Witness ==
    /\ Listou
    /\ Len(antes.conteudo) = 2
    /\ antes.conteudo[1].id = 2
    /\ antes.conteudo[1].paciente = Bob
    /\ antes.conteudo[2].id = 1
    /\ antes.conteudo[2].status = "cancelada"
    /\ ret.ativas = <<antes.conteudo[1]>>

(***************************************************************************)
(* The life of a record, in Spec.                                          *)
(***************************************************************************)
\* C13: at every step the file keeps every record it held, at its position:
\* none is removed, so the number of records never decreases, and the status
\* of a record either stays as it was or goes from marcada to cancelada; a
\* record that is cancelada is cancelada after the step.
C13_StatusOnlyForward ==
    [][/\ Len(arquivo'.conteudo) >= Len(arquivo.conteudo)
       /\ \A i \in 1..Len(arquivo.conteudo) :
             /\ \/ arquivo'.conteudo[i].status = arquivo.conteudo[i].status
                \/ /\ arquivo.conteudo[i].status = "marcada"
                   /\ arquivo'.conteudo[i].status = "cancelada"
             /\ arquivo.conteudo[i].status = "cancelada"
                   => arquivo'.conteudo[i].status = "cancelada"
             /\ [arquivo'.conteudo[i] EXCEPT !.status = "marcada"]
                   = [arquivo.conteudo[i] EXCEPT !.status = "marcada"]]_vars

\* the first record was cancelled, a second was scheduled after that, and the
\* last call cancelled the second
C13_Witness ==
    /\ Cancelou
    /\ ret.sucesso
    /\ chamada.consulta_id = 2
    /\ Len(arquivo.conteudo) = 2
    /\ antes.conteudo[1].status = "cancelada"
    /\ antes.conteudo[2].status = "marcada"
    /\ arquivo.conteudo[1].status = "cancelada"
    /\ arquivo.conteudo[2].status = "cancelada"

\* the ids of the records of a list
Ids(consultas) == {consultas[i].id : i \in 1..Len(consultas)}

\* C14: from the empty repository, the records of the file have pairwise
\* distinct ids that are positive integers, and at every step each record
\* keeps its id and a record added by the step gets an id that no record
\* had before the step.
C14_IdsDistinctAndStable ==
    /\ [](\A i, j \in 1..Len(arquivo.conteudo) :
             /\ arquivo.conteudo[i].id \in Nat \ {0}
             /\ i # j => arquivo.conteudo[i].id # arquivo.conteudo[j].id)
    /\ [][/\ \A i \in 1..Len(arquivo.conteudo) :
                 /\ i <= Len(arquivo'.conteudo)
                 /\ arquivo'.conteudo[i].id = arquivo.conteudo[i].id
          /\ \A i \in (Len(arquivo.conteudo) + 1)..Len(arquivo'.conteudo) :
                 arquivo'.conteudo[i].id \notin Ids(arquivo.conteudo)]_vars

\* a second record has just been scheduled after the first was cancelled
C14_Witness ==
    /\ Agendou
    /\ Len(antes.conteudo) = 1
    /\ antes.conteudo[1].status = "cancelada"
    /\ Len(arquivo.conteudo) = 2
    /\ arquivo.conteudo[1].id = 1
    /\ arquivo.conteudo[2].id = 2

(***************************************************************************)
(* SpecManual: the manual scheduling of main.py, where the patient is the  *)
(* line input() returned, whatever it is, and cancelar_consulta.           *)
(***************************************************************************)
\* the user pressed Enter at "Nome do paciente: "
Vazio == <<>>

NomesDigitados == {Vazio, Ana}

EntradasManual ==
    {<<Seg10, H0800>>, <<Seg10, H0815>>, <<Seg10, H0830>>, <<Sab15, H0800>>}

\* handle_agendamento_manual: the three lines go to agendar_consulta as read
HandleAgendamentoManual(paciente, data, hora) ==
    AgendarConsulta(paciente, data, hora)

NextManual ==
    \/ \E paciente \in NomesDigitados, e \in EntradasManual :
           HandleAgendamentoManual(paciente, e[1], e[2])
    \/ \E consulta_id \in 1..MaxConsultas : CancelarConsulta(consulta_id)

SpecManual == Init /\ [][NextManual]_vars

\* C17 (as claimed): every record of the file has a patient text that is not
\* empty.
C17_PatientNonEmpty ==
    \A i \in 1..Len(arquivo.conteudo) : Len(arquivo.conteudo[i].paciente) > 0

(***************************************************************************)
(* SpecConc: two callers, each making one call of agendar_consulta or      *)
(* cancelar_consulta on the same file.  A call touches the file twice: at  *)
(* load_consultas() and, if it gets that far, at save_consultas(consultas);*)
(* what it does in between works on the list it loaded.  The steps of the  *)
(* two calls interleave.  Here chamada and ret hold one entry per caller,  *)
(* nloads and nsaves count the loads and saves of both, and antes is the   *)
(* file the callers start from.                                            *)
(***************************************************************************)
Chamadores == {"c1", "c2"}

\* the files the callers start from: no file, or the records one caller
\* left, the one at position i with id i, starting 30 minutes after the one
\* before it
ListasConcDe(n) ==
    {[i \in 1..n |-> Registro(i, IF i % 2 = 1 THEN Ana ELSE Bob,
                              InicioNaPosicao(i), f[i])] :
        f \in [1..n -> {"marcada", "cancelada"}]}

ArquivosConc ==
    {ArquivoAusente}
    \cup {save_consultas(l) : l \in UNION {ListasConcDe(n) : n \in 0..MaxLista}}

EntradasConc ==
    {<<Seg10, H0800>>, <<Seg10, H0815>>, <<Seg10, H0830>>,
     <<Seg10, HM("0", "9", "0", "0")>>, <<Seg10, HM("0", "9", "3", "0")>>,
     <<Sab15, H0800>>}

\* a caller that has not called yet
Pronto == [pc |-> "pronto", op |-> "nenhuma", lido |-> 0, salvo |-> 0]

InitConc ==
    /\ arquivo \in ArquivosConc
    /\ chamada = [c \in Chamadores |-> Pronto]
    /\ ret = [c \in Chamadores |-> [kind |-> "nenhum"]]
    /\ nloads = 0
    /\ nsaves = 0
    /\ antes = arquivo

\* mutant: the call is made again, from its load on, on the file as it is
\* when the save is reached
ConcluirSobreAtual(arq, ch) ==
    IF ch.op = "agendar_consulta"
    THEN agendar_consulta(arq, ch.paciente, ch.data_str, ch.hora_str)
    ELSE cancelar_consulta(arq, ch.consulta_id)

\* mutant: the save adds the record the call created to the records the
\* file holds when the save is reached, instead of writing the list the
\* call loaded over them
ConcluirJuntando(arq, ch) ==
    IF ch.op = "agendar_consulta"
    THEN [ch.pendente EXCEPT
             !.arquivo = save_consultas(load_consultas(arq)
                                        \o ch.pendente.ret.consulta)]
    ELSE ch.pendente

\* the end of a call that got to its save: save_consultas(consultas) writes
\* the list the call loaded and changed over whatever the file holds, and
\* the call returns what it made of that list
Concluir(arq, ch) == ch.pendente

\* the call of caller c up to the point where it saves; r is what the call
\* makes of the file it loads.  A call that does not save has returned.
Comeca(c, ch, r) ==
    /\ chamada' = [chamada EXCEPT ![c] =
                      ch @@ [pc |-> IF r.nsaves = 0 THEN "fim" ELSE "carregou",
                             lido |-> nsaves, salvo |-> 0,
                             consultas |-> IF r.nloads = 0 THEN <<>>
                                           ELSE load_consultas(arquivo),
                             pendente |-> r]]
    /\ ret' = IF r.nsaves = 0 THEN [ret EXCEPT ![c] = r.ret] ELSE ret
    /\ nloads' = nloads + r.nloads
    /\ UNCHANGED <<arquivo, nsaves, antes>>

ComecaAgendar(c, paciente, data_str, hora_str) ==
    /\ chamada[c].pc = "pronto"
    /\ \E r \in {agendar_consulta(arquivo, paciente, data_str, hora_str)} :
           Comeca(c, [op |-> "agendar_consulta", paciente |-> paciente,
                      data_str |-> data_str, hora_str |-> hora_str], r)

ComecaCancelar(c, consulta_id) ==
    /\ chamada[c].pc = "pronto"
    /\ \E r \in {cancelar_consulta(arquivo, consulta_id)} :
           Comeca(c, [op |-> "cancelar_consulta", consulta_id |-> consulta_id], r)

\* save_consultas(consultas) and the return of caller c
Salva(c) ==
    /\ chamada[c].pc = "carregou"
    /\ \E r \in {Concluir(arquivo, chamada[c])} :
           /\ arquivo' = r.arquivo
           /\ ret' = [ret EXCEPT ![c] = r.ret]
    /\ nsaves' = nsaves + 1
    /\ chamada' = [chamada EXCEPT ![c].pc = "fim", ![c].salvo = nsaves + 1]
    /\ UNCHANGED <<nloads, antes>>

NextConc ==
    \/ \E c \in Chamadores, paciente \in Pacientes, e \in EntradasConc :
           ComecaAgendar(c, paciente, e[1], e[2])
    \/ \E c \in Chamadores, consulta_id \in 1..(MaxLista + MaxIdExtra) :
           ComecaCancelar(c, consulta_id)
    \/ \E c \in Chamadores : Salva(c)

SpecConc == InitConc /\ [][NextConc]_vars

\* the call of caller c has returned success
Sucesso(c) ==
    /\ chamada[c].pc = "fim"
    /\ ret[c].kind = "return"
    /\ \/ chamada[c].op = "agendar_consulta" /\ ret[c].consulta # <<>>
       \/ chamada[c].op = "cancelar_consulta" /\ ret[c].sucesso

\* u saved after p did, and had loaded before p saved
Intercalado(u, p) ==
    /\ chamada[p].salvo > 0
    /\ chamada[u].salvo > chamada[p].salvo
    /\ chamada[u].lido < chamada[p].salvo

\* u loaded after p saved
EmSequencia(u, p) ==
    /\ chamada[p].salvo > 0
    /\ chamada[u].salvo > chamada[p].salvo
    /\ chamada[u].lido >= chamada[p].salvo

\* the file that the call of caller c, made alone, leaves of the file the
\* callers started from
SoDe(c) ==
    IF chamada[c].op = "agendar_consulta"
    THEN agendar_consulta(antes, chamada[c].paciente, chamada[c].data_str,
                          chamada[c].hora_str).arquivo
    ELSE cancelar_consulta(antes, chamada[c].consulta_id).arquivo

\* the write of the successful call of caller c is not in the file: the
\* record it returned is not there, scheduled or cancelled, or the record it
\* cancelled, the first scheduled one with the id in the list it loaded, is
\* scheduled
Perdida(c) ==
    IF chamada[c].op = "agendar_consulta"
    THEN \A i \in 1..Len(arquivo.conteudo) :
             [arquivo.conteudo[i] EXCEPT !.status = "marcada"]
                 # ret[c].consulta[1]
    ELSE arquivo.conteudo[Primeira(MarcadasComId(chamada[c].consultas,
                                                 chamada[c].consulta_id))
                         ].status = "marcada"

\* C18: the steps of two calls can interleave so that a write is lost.
\* Whenever both calls returned success and the one that saved last had
\* loaded before the other saved, the file is the one the last call alone
\* leaves of the starting file, and the write of the other call, unless it is
\* the very same change, is not in it; when the last call loaded after the
\* other saved, neither write is lost.
C18_InterleavedSaveLosesWrite ==
    \A u, p \in Chamadores :
        (u # p /\ Sucesso(u) /\ Sucesso(p)) =>
            /\ Intercalado(u, p) =>
                  /\ arquivo = SoDe(u)
                  /\ ret[p] # ret[u] => Perdida(p)
                  /\ ~Perdida(u)
            /\ EmSequencia(u, p) => (~Perdida(p) /\ ~Perdida(u))

\* from an empty repository Ana was given 08:00 and Bob 09:00, slots that do
\* not overlap, both calls returned success, and the file holds one record
C18_Witness ==
    /\ \E u, p \in Chamadores :
           /\ u # p /\ Sucesso(u) /\ Sucesso(p) /\ Intercalado(u, p)
           /\ chamada[p].op = "agendar_consulta"
           /\ chamada[p].paciente = Ana /\ chamada[p].hora_str = H0800
           /\ chamada[u].op = "agendar_consulta"
           /\ chamada[u].paciente = Bob
           /\ chamada[u].hora_str = HM("0", "9", "0", "0")
           /\ Perdida(p)
    /\ antes = ArquivoAusente
    /\ Len(arquivo.conteudo) = 1
    /\ nsaves = 2

\* C19: two calls of agendar_consulta that loaded the same file before
\* either saved, and both returned a record, returned records with the same
\* id, the number of records loaded plus one.
C19_StaleLoadsDuplicateIds ==
    \A a, b \in Chamadores :
        (/\ a # b
         /\ chamada[a].op = "agendar_consulta" /\ Sucesso(a)
         /\ chamada[b].op = "agendar_consulta" /\ Sucesso(b)
         /\ chamada[a].lido = chamada[b].lido) =>
            /\ chamada[a].consultas = chamada[b].consultas
            /\ ret[a].consulta[1].id = ret[b].consulta[1].id
            /\ ret[a].consulta[1].id = Len(chamada[a].consultas) + 1

\* the file held one record; Ana was given 09:00 and Bob 09:30, both with
\* id 2
C19_Witness ==
    /\ Len(antes.conteudo) = 1
    /\ \E a, b \in Chamadores :
           /\ a # b
           /\ chamada[a].op = "agendar_consulta" /\ Sucesso(a)
           /\ chamada[b].op = "agendar_consulta" /\ Sucesso(b)
           /\ chamada[a].lido = 0 /\ chamada[b].lido = 0
           /\ chamada[a].paciente = Ana /\ chamada[b].paciente = Bob
           /\ ret[a].consulta[1].data_hora_inicio
                 # ret[b].consulta[1].data_hora_inicio
           /\ ret[a].consulta[1].id = 2
           /\ ret[b].consulta[1].id = 2

(***************************************************************************)
(* SpecStorage: save_consultas and load_consultas on the text of the file. *)
(* Here arquivo is [existe, texto]; one list is saved, loaded, and what    *)
(* was loaded is saved and loaded again, or the file found is loaded       *)
(* first.                                                                  *)
(***************************************************************************)
SemArquivo == [existe |-> FALSE, texto |-> <<>>]

\* mutant: the text is written over the start of the old text, the rest of
\* which stays
EscreveSemTruncar(arq, texto) ==
    [existe |-> TRUE,
     texto |-> texto \o SubSeq(arq.texto, Len(texto) + 1, Len(arq.texto))]

\* open(FILE_PATH, "w") and the write: the old text is gone
Escreve(arq, texto) == [existe |-> TRUE, texto |-> texto]

\* what load_consultas returns of what json.load made of the text
Lido(d) ==
    IF d.ok THEN [kind |-> "return", consultas |-> d.val]
    ELSE [kind |-> "raise", consultas |-> <<>>]

\* load_consultas(): [] when there is no file
Le(arq) ==
    IF arq.existe THEN Lido(json_load(arq.texto))
    ELSE [kind |-> "return", consultas |-> <<>>]

\* patient names: plain, empty, a quote, a backslash before an n, a line
\* break and a letter outside ASCII
PacientesTexto ==
    {Ana, Vazio, <<"\"">>, <<"\\", "n">>, <<"Z", "\n", "é">>}

ListasTextoDe(n) ==
    {[i \in 1..n |-> Registro(i, f[i][1], InicioNaPosicao(i), f[i][2])] :
        f \in [1..n -> PacientesTexto \X {"marcada", "cancelada"}]}

\* the file found: none, or one with more records than any list saved
ArquivosTexto ==
    {SemArquivo,
     Escreve(SemArquivo,
             json_dump([i \in 1..(MaxLista + 1) |->
                           Registro(i, Bob, InicioNaPosicao(i), "marcada")]))}

InitStorage ==
    /\ arquivo \in ArquivosTexto
    /\ chamada \in {[op |-> "entrada", consultas |-> l] :
                       l \in UNION {ListasTextoDe(n) : n \in 0..MaxLista}}
    /\ ret = [kind |-> "nenhum"]
    /\ nloads = 0
    /\ nsaves = 0
    /\ antes = arquivo

\* save_consultas(consultas), of the list given or of the list just loaded
SaveConsultas ==
    /\ nsaves < 2
    /\ \/ chamada.op = "entrada"
       \/ chamada.op = "load_consultas" /\ ret.kind = "return"
    /\ \E consultas \in {IF chamada.op = "entrada" THEN chamada.consultas
                         ELSE ret.consultas} :
           /\ arquivo' = Escreve(arquivo, json_dump(consultas))
           /\ chamada' = [op |-> "save_consultas", consultas |-> consultas]
    /\ ret' = [kind |-> "return"]
    /\ nsaves' = nsaves + 1
    /\ antes' = arquivo
    /\ UNCHANGED nloads

\* load_consultas()
LoadConsultas ==
    /\ nloads < 2
    /\ chamada.op \in {"entrada", "save_consultas"}
    /\ ret' = Le(arquivo)
    /\ chamada' = [chamada EXCEPT !.op = "load_consultas"]
    /\ nloads' = nloads + 1
    /\ antes' = arquivo
    /\ UNCHANGED <<arquivo, nsaves>>

NextStorage == SaveConsultas \/ LoadConsultas

SpecStorage == InitStorage /\ [][NextStorage]_vars

\* C20: a load that follows a save returns the sequence that was saved, the
\* same records with the same field values in the same order, whatever the
\* file held before the save; and saving what was just loaded leaves the text
\* of the file as it was, so that loading again returns the same sequence.
C20_SaveLoadRoundTrip ==
    /\ (chamada.op = "load_consultas" /\ nsaves > 0) =>
          /\ ret.kind = "return"
          /\ ret.consultas = chamada.consultas
    /\ (chamada.op = "save_consultas" /\ nloads > 0 /\ antes.existe) =>
          /\ arquivo.existe
          /\ arquivo.texto = antes.texto

\* a list of one cancelled record whose patient is a quote was saved,
\* loaded, saved again and loaded again
C20_Witness ==
    /\ chamada.op = "load_consultas"
    /\ nsaves = 2
    /\ nloads = 2
    /\ Len(chamada.consultas) = 1
    /\ chamada.consultas[1].paciente = <<"\"">>
    /\ chamada.consultas[1].status = "cancelada"
    /\ ret.consultas = chamada.consultas

\* ---------------------------------------------------------------------
\* The first call on a repository without a file (Spec)
\* ---------------------------------------------------------------------

\* the last call was agendar_consulta with a parsed timestamp inside the
\* office hours, made while consultas.json did not exist
PrimeiraNoRepositorioNovo ==
    /\ Agendou
    /\ Interpretado.ok
    /\ is_within_working_hours(Interpretado.dt).valid
    /\ ~antes.existe

\* C21: without a file load_consultas gives the empty list and raises
\* nothing, so a call with a valid timestamp made before the file exists
\* returns, loads once, saves once, and the file then holds exactly the
\* returned record, which has id 1 and status marcada.
C21_FreshRepositoryFirstId ==
    PrimeiraNoRepositorioNovo =>
        /\ load_consultas(antes) = <<>>
        /\ ret.kind = "return"
        /\ nloads = 1
        /\ nsaves = 1
        /\ Len(ret.consulta) = 1
        /\ ret.consulta[1].id = 1
        /\ ret.consulta[1].status = "marcada"
        /\ ret.msg = MsgSucesso
        /\ arquivo.existe
        /\ arquivo.conteudo = ret.consulta

\* Ana was scheduled on Monday at 08:00 before the file existed
C21_Witness ==
    /\ PrimeiraNoRepositorioNovo
    /\ chamada.paciente = Ana
    /\ chamada.data_str = Seg10
    /\ chamada.hora_str = H0800
    /\ arquivo.existe
    /\ Len(arquivo.conteudo) = 1
    /\ arquivo.conteudo[1].id = 1

(***************************************************************************)
(* ai_services.py: parse_natural_language.  The answer of                  *)
(* client.chat.completions.create is [raises, tool_calls]: raises stands   *)
(* for any exception of the call (or of response.choices[0]); tool_calls   *)
(* is message.tool_calls, None and [] both being the empty sequence, each  *)
(* call a [type, arguments] with arguments the text the service wrote.     *)
(***************************************************************************)
\* a decoded JSON value with its Python type
Valor(tipo, val) == [tipo |-> tipo, val |-> val]

Tipado(tipo, v) ==
    IF v.ok THEN Decoded(Valor(tipo, v.val), v.pos) ELSE JSONDecodeError

\* a value of the arguments: a string, null or an int
DecodeArgValue(t, i) ==
    IF At(t, i) = "\"" THEN Tipado("str", DecodeStr(t, i))
    ELSE IF i + 3 <= Len(t) /\ SubSeq(t, i, i + 3) = <<"n", "u", "l", "l">>
    THEN Decoded(Valor("NoneType", <<>>), i + 4)
    ELSE Tipado("int", DecodeInt(t, i))

\* json.decoder.JSONObject: the members from position i on, a key read
\* again taking the place of the one read before; after the closing brace
\* only white space may follow
RECURSIVE DecodeArgs(_, _, _)
DecodeArgs(t, i, acc) ==
    LET chave == DecodeStr(t, i)
        dois == SkipWs(t, chave.pos)
        v == DecodeArgValue(t, SkipWs(t, dois + 1))
        fim == SkipWs(t, v.pos)
    IN  IF ~chave.ok THEN JSONDecodeError
        ELSE IF At(t, dois) # ":" THEN JSONDecodeError
        ELSE IF ~v.ok THEN JSONDecodeError
        ELSE IF At(t, fim) = ","
        THEN DecodeArgs(t, SkipWs(t, fim + 1), (chave.val :> v.val) @@ acc)
        ELSE IF At(t, fim) = "}"
        THEN Tipado("dict", FimDoTexto(t, (chave.val :> v.val) @@ acc,
                                       SkipWs(t, fim + 1)))
        ELSE JSONDecodeError

\* json.loads(tool_call.function.arguments): a dict, a list, a string, null
\* or an int
json_loads(t) ==
    LET i == SkipWs(t, 1)
        v == DecodeArgValue(t, i)
    IN  IF At(t, i) = "{"
        THEN IF At(t, SkipWs(t, i + 1)) = "}"
             THEN Tipado("dict", FimDoTexto(t, <<>>,
                                            SkipWs(t, SkipWs(t, i + 1) + 1)))
             ELSE DecodeArgs(t, SkipWs(t, i + 1), <<>>)
        ELSE IF At(t, i) = "[" THEN Tipado("list", DecodeList(t, i))
        ELSE IF ~v.ok THEN JSONDecodeError
        ELSE FimDoTexto(t, v.val, SkipWs(t, v.pos))

\* str(value)
PyStr(v) ==
    CASE v.tipo = "str" -> v.val
      [] v.tipo = "int" -> EncodeInt(v.val)
      [] v.tipo = "NoneType" -> <<"N", "o", "n", "e">>

\* str.strip()
RECURSIVE Strip(_)
Strip(s) ==
    IF s = <<>> THEN s
    ELSE IF Head(s) \in {" ", "\n", "\r", "\t"} THEN Strip(Tail(s))
    ELSE IF s[Len(s)] \in {" ", "\n", "\r", "\t"}
    THEN Strip(SubSeq(s, 1, Len(s) - 1))
    ELSE s

\* the keys the loop of parse_natural_language goes through, in its order
Exigidos ==
    << <<"p", "a", "c", "i", "e", "n", "t", "e">>,
       <<"d", "a", "t", "a">>,
       <<"h", "o", "r", "a">> >>

\* parse_natural_language returns None
Nada == [some |-> FALSE, dados |-> <<>>]

\* for key in ("paciente", "data", "hora"), from the j-th key on, then
\* return function_args
RECURSIVE ValidaCampos(_, _)
ValidaCampos(function_args, j) ==
    IF j > Len(Exigidos) THEN [some |-> TRUE, dados |-> function_args]
    ELSE IF Exigidos[j] \notin DOMAIN function_args THEN Nada
    ELSE IF Strip(PyStr(function_args[Exigidos[j]])) = <<>> THEN Nada
    ELSE ValidaCampos(function_args, j + 1)

\* parse_natural_language(text) when the service answers resposta.  Every
\* exception inside the try gives None: the one of the call, the
\* JSONDecodeError of json.loads, and the TypeError of the loop when
\* function_args is not a dict (a list or a string that lacks a key gives
\* None at "key not in function_args" already).
parse_natural_language(resposta) ==
    IF resposta.raises THEN Nada
    ELSE IF Len(resposta.tool_calls) = 0 THEN Nada
    ELSE IF resposta.tool_calls[1].type # "function" THEN Nada
    ELSE LET function_args == json_loads(resposta.tool_calls[1].arguments)
         IN  IF ~function_args.ok THEN Nada
             ELSE IF function_args.val.tipo # "dict" THEN Nada
             ELSE ValidaCampos(function_args.val.val, 1)

(***************************************************************************)
(* SpecParse: parse_natural_language applied to the answers of the         *)
(* service.                                                                *)
(***************************************************************************)
\* "key": value, or nothing when the service left the key out
Membro(chave, valor) ==
    IF valor = <<"-">> THEN <<>> ELSE <<EncodeStr(chave) \o <<":", " ">> \o valor>>

RECURSIVE Junta(_)
Junta(membros) ==
    IF Len(membros) = 0 THEN <<>>
    ELSE IF Len(membros) = 1 THEN membros[1]
    ELSE membros[1] \o <<",", " ">> \o Junta(Tail(membros))

\* the arguments as json.dumps writes a dict of the three keys
Argumentos(paciente, data, hora) ==
    <<"{">>
    \o Junta(Membro(Exigidos[1], paciente) \o Membro(Exigidos[2], data)
             \o Membro(Exigidos[3], hora))
    \o <<"}">>

\* what the service may write as a value: nothing (-), "", white space,
\* a text, null, a number
ValoresPaciente ==
    {<<"-">>, EncodeStr(<<>>), EncodeStr(<<" ">>), EncodeStr(Ana),
     <<"n", "u", "l", "l">>, <<"7">>}

ValoresData ==
    {<<"-">>, EncodeStr(<<>>), EncodeStr(Seg10), <<"n", "u", "l", "l">>}

ValoresHora ==
    {<<"-">>, EncodeStr(<<" ", "\t">>), EncodeStr(H0800), EncodeStr(Hora2pm)}

\* texts that are not a dict or not JSON at all
OutrosArgumentos ==
    {<<>>, <<"[", "]">>, <<"7">>, <<"n", "u", "l", "l">>,
     EncodeStr(<<"p", "a", "c", "i", "e", "n", "t", "e">>),
     <<"{", "}">>,
     <<"{">> \o EncodeStr(Exigidos[1]) \o <<":", " ">> \o EncodeStr(Ana),
     Argumentos(EncodeStr(Ana), EncodeStr(Seg10), EncodeStr(H0800)) \o <<"}">>,
     <<"{">> \o EncodeStr(Exigidos[1]) \o <<":", " ">> \o <<"A", "n", "a", "}">>}

TextosDeArgumentos ==
    {Argumentos(p, d, h) :
        p \in ValoresPaciente, d \in ValoresData, h \in ValoresHora}
    \cup OutrosArgumentos

Respostas ==
    {[raises |-> TRUE, tool_calls |-> <<>>],
     [raises |-> FALSE, tool_calls |-> <<>>]}
    \cup {[raises |-> FALSE,
           tool_calls |-> <<[type |-> tipo, arguments |-> t]>>] :
             tipo \in {"function"}, t \in TextosDeArgumentos}
    \cup {[raises |-> FALSE,
           tool_calls |-> <<[type |-> "custom",
                             arguments |-> Argumentos(EncodeStr(Ana),
                                                      EncodeStr(Seg10),
                                                      EncodeStr(H0800))]>>]}

InitParse ==
    /\ arquivo = ArquivoAusente
    /\ chamada \in {[op |-> "entrada", resposta |-> r] : r \in Respostas}
    /\ ret = [kind |-> "nenhum"]
    /\ nloads = 0
    /\ nsaves = 0
    /\ antes = ArquivoAusente

ParseNaturalLanguage ==
    /\ chamada.op = "entrada"
    /\ chamada' = [chamada EXCEPT !.op = "parse_natural_language"]
    /\ \E r \in {parse_natural_language(chamada.resposta)} :
           ret' = [kind |-> "return", some |-> r.some, dados |-> r.dados]
    /\ UNCHANGED <<arquivo, nloads, nsaves, antes>>

NextParse == ParseNaturalLanguage

SpecParse == InitParse /\ [][NextParse]_vars

ParseReturned == chamada.op = "parse_natural_language"

\* C22: whatever the service answers, parse_natural_language returns None
\* or a dict in which paciente, data and hora are all present (a key with a
\* value other than None) and not empty.
C22_NeverPartial ==
    (ParseReturned /\ ret.some) =>
        \A j \in 1..Len(Exigidos) :
            /\ Exigidos[j] \in DOMAIN ret.dados
            /\ ret.dados[Exigidos[j]].tipo # "NoneType"
            /\ Strip(PyStr(ret.dados[Exigidos[j]])) # <<>>

(***************************************************************************)
(* ai_services.py: generate_confirmation_message, and main.py:             *)
(* agendar_e_confirmar.  The answer of client.chat.completions.create is   *)
(* [raises, content]: raises stands for any exception inside the try,      *)
(* content is <<>> for None and <<text>> for a text.                       *)
(***************************************************************************)
MsgSemConfirmacao ==
    Msg("Nao foi possivel gerar uma mensagem de confirmacao.", <<>>)

MsgErroConfirmacao ==
    Msg("Erro ao gerar mensagem de confirmacao. Por favor, tente novamente mais tarde.", <<>>)

\* generate_confirmation_message(paciente, data_hora_inicio) -> str;
\* datetime.fromisoformat stands before the try, its ValueError leaves the
\* function
generate_confirmation_message(paciente, data_hora_inicio, resposta) ==
    IF ~fromisoformat(data_hora_inicio).ok
    THEN [kind |-> "raise", msg_ia |-> <<>>]
    ELSE IF resposta.raises
    THEN [kind |-> "return", msg_ia |-> <<MsgErroConfirmacao>>]
    ELSE IF resposta.content = <<>>
    THEN [kind |-> "return", msg_ia |-> <<MsgSemConfirmacao>>]
    ELSE [kind |-> "return", msg_ia |-> <<Msg(resposta.content[1], <<>>)>>]

\* mutant: the record is saved only when the confirmation came
ConfirmarOuDesfazer(arq, r, resposta) ==
    IF r.ret.kind = "raise" \/ r.ret.consulta = <<>>
    THEN [r EXCEPT !.ret = [kind |-> r.ret.kind, consulta |-> r.ret.consulta,
                            msg |-> r.ret.msg, msg_ia |-> <<>>]]
    ELSE [ret |-> [kind |-> "return", consulta |-> r.ret.consulta,
                   msg |-> r.ret.msg,
                   msg_ia |-> generate_confirmation_message(
                                  r.ret.consulta[1].paciente,
                                  r.ret.consulta[1].data_hora_inicio,
                                  resposta).msg_ia],
          arquivo |-> IF resposta.raises THEN arq ELSE r.arquivo,
          nloads |-> r.nloads,
          nsaves |-> IF resposta.raises THEN 0 ELSE r.nsaves]

\* agendar_e_confirmar after agendar_consulta gave r: msg_ia is the
\* confirmation printed, <<>> when none is
Confirmar(arq, r, resposta) ==
    IF r.ret.kind = "raise" \/ r.ret.consulta = <<>>
    THEN [r EXCEPT !.ret = [kind |-> r.ret.kind, consulta |-> r.ret.consulta,
                            msg |-> r.ret.msg, msg_ia |-> <<>>]]
    ELSE [r EXCEPT !.ret =
             [kind |-> generate_confirmation_message(
                           r.ret.consulta[1].paciente,
                           r.ret.consulta[1].data_hora_inicio, resposta).kind,
              consulta |-> r.ret.consulta,
              msg |-> r.ret.msg,
              msg_ia |-> generate_confirmation_message(
                             r.ret.consulta[1].paciente,
                             r.ret.consulta[1].data_hora_inicio,
                             resposta).msg_ia]]

agendar_e_confirmar(arq, paciente, data, hora, resposta) ==
    Confirmar(arq, agendar_consulta(arq, paciente, data, hora), resposta)

(***************************************************************************)
(* SpecConfirma: the menu with agendar_e_confirmar and cancelar_consulta,  *)
(* the service answering each confirmation in one of its three ways.       *)
(***************************************************************************)
RespostasConfirmacao ==
    {[raises |-> TRUE, content |-> <<>>],
     [raises |-> FALSE, content |-> <<>>],
     [raises |-> FALSE, content |-> <<"Consulta confirmada.">>]}

EntradasConfirma ==
    {<<Seg10, H0800>>, <<Seg10, H0830>>, <<Sab15, H0800>>,
     <<DataBarras, H0800>>}

AgendarEConfirmar(paciente, data, hora, resposta) ==
    \E r \in {agendar_e_confirmar(arquivo, paciente, data, hora, resposta)} :
        /\ Len(r.arquivo.conteudo) <= MaxConsultas
        /\ chamada' = [op |-> "agendar_e_confirmar", paciente |-> paciente,
                       data_str |-> data, hora_str |-> hora,
                       resposta |-> resposta]
        /\ Efeito(r)

NextConfirma ==
    \/ \E paciente \in Pacientes, e \in EntradasConfirma,
          resposta \in RespostasConfirmacao :
           AgendarEConfirmar(paciente, e[1], e[2], resposta)
    \/ \E consulta_id \in 1..MaxConsultas : CancelarConsulta(consulta_id)

SpecConfirma == Init /\ [][NextConfirma]_vars

\* the last call was agendar_e_confirmar, its record was scheduled and the
\* service failed on the confirmation
ConfirmacaoFalhou ==
    /\ chamada.op = "agendar_e_confirmar"
    /\ ret.consulta # <<>>
    /\ chamada.resposta.raises

\* C23: when the service fails on the confirmation of a record just
\* scheduled, agendar_e_confirmar raises nothing and prints the fixed text
\* of the except branch, and the file holds the loaded records followed by
\* the new record with status marcada, saved once.
C23_ConfirmationFailureKeepsRecord ==
    ConfirmacaoFalhou =>
        /\ ret.kind = "return"
        /\ ret.msg_ia = <<MsgErroConfirmacao>>
        /\ ret.msg = MsgSucesso
        /\ nsaves = 1
        /\ arquivo.existe
        /\ arquivo.conteudo = antes.conteudo \o ret.consulta
        /\ Ultima.status = "marcada"
        /\ Ultima.paciente = chamada.paciente

\* Bob was scheduled second and the service failed on his confirmation
C23_Witness ==
    /\ ConfirmacaoFalhou
    /\ chamada.paciente = Bob
    /\ Len(arquivo.conteudo) = 2
    /\ Ultima.id = 2
    /\ Ultima.status = "marcada"
    /\ ret.msg_ia = <<MsgErroConfirmacao>>

\* ---------------------------------------------------------------------
\* Booking a cancelled slot again (Spec)
\* ---------------------------------------------------------------------

\* the cancelled records of the file found that start where the last call
\* asked to start
CanceladasNoInicio ==
    {i \in 1..Len(antes.conteudo) :
        /\ antes.conteudo[i].status = "cancelada"
        /\ antes.conteudo[i].data_hora_inicio = isoformat(Interpretado.dt)}

\* a timestamp as the clock on the wall shows it, its UTC offset left out
Relogio(dt) == [dt EXCEPT !.utcoffset = 0]

\* no record of the file found that is not cancelled intersects the interval
\* the last call asked for, neither as instants nor on the clock
NenhumaSobreposta ==
    /\ EmConflito(antes.conteudo, Interpretado.dt) = {}
    /\ EmConflito(antes.conteudo, Relogio(Interpretado.dt)) = {}
    /\ \A i \in 1..Len(antes.conteudo) :
          NaoCancelada(antes.conteudo[i]) =>
              ~Intersecta(Relogio(Interpretado.dt),
                          Relogio(InicioDe(antes.conteudo[i])))

\* C24: a call inside the office hours at the start of a record that was
\* scheduled and then cancelled, with no other record that is not cancelled
\* intersecting its interval, succeeds: it returns a new record with status
\* marcada whose id is greater than the cancelled record's, and the
\* cancelled record stays in the file as it was.
C24_CancelledSlotRebookable ==
    (/\ Agendou
     /\ Interpretado.ok
     /\ is_within_working_hours(Interpretado.dt).valid
     /\ CanceladasNoInicio # {}
     /\ NenhumaSobreposta) =>
        /\ ret.kind = "return"
        /\ ret = Retorno(<<Ultima>>, MsgSucesso)
        /\ Len(arquivo.conteudo) = Len(antes.conteudo) + 1
        /\ Ultima.status = "marcada"
        /\ Ultima.data_hora_inicio = isoformat(Interpretado.dt)
        /\ \A i \in CanceladasNoInicio :
              /\ Ultima.id > antes.conteudo[i].id
              /\ arquivo.conteudo[i] = antes.conteudo[i]

\* ---------------------------------------------------------------------
\* The ids follow the positions (Spec)
\* ---------------------------------------------------------------------

\* the ids of a list go up strictly from each record to the next
IdsCrescentes(consultas) ==
    \A k \in 1..(Len(consultas) - 1) : consultas[k].id < consultas[k + 1].id

\* C25: from the empty repository, after any calls of one caller, the k-th
\* record of the file has id k; so the ids go up strictly in the order of
\* the file, listar_consultas returns its records with ids going up
\* strictly, and a record just created has an id greater than every id the
\* file held.
C25_IdIsPosition ==
    /\ \A k \in 1..Len(arquivo.conteudo) : arquivo.conteudo[k].id = k
    /\ IdsCrescentes(load_consultas(arquivo))
    /\ Listou => IdsCrescentes(ret.ativas)
    /\ (Agendou /\ ret.kind = "return" /\ ret.consulta # <<>>) =>
           \A i \in 1..Len(antes.conteudo) :
               ret.consulta[1].id > antes.conteudo[i].id

\* both records of the file are scheduled and have just been listed
C25_Witness ==
    /\ Listou
    /\ Len(arquivo.conteudo) = 2
    /\ Len(ret.ativas) = 2
    /\ ret.ativas[1].id = 1
    /\ ret.ativas[2].id = 2

(***************************************************************************)
(* SpecCorrida: callers that start from the empty repository and call      *)
(* agendar_consulta and cancelar_consulta again and again, each call       *)
(* loading and saving as in SpecConc, a caller back at the menu after      *)
(* its call returned.                                                      *)
(***************************************************************************)
ChamadoresCorrida == {"c1", "c2", "c3"}

EntradasCorrida ==
    {<<Seg10, H0800>>, <<Seg10, H0815>>, <<Seg10, H0830>>}

InitCorrida ==
    /\ arquivo = ArquivoAusente
    /\ chamada = [c \in ChamadoresCorrida |-> Pronto]
    /\ ret = [c \in ChamadoresCorrida |-> [kind |-> "nenhum"]]
    /\ nloads = 0
    /\ nsaves = 0
    /\ antes = ArquivoAusente

\* the call of caller c has returned and what it returned has been
\* printed: c is at the menu again
Retorna(c) ==
    /\ chamada[c].pc = "fim"
    /\ chamada' = [chamada EXCEPT ![c] = Pronto]
    /\ ret' = [ret EXCEPT ![c] = [kind |-> "nenhum"]]
    /\ UNCHANGED <<arquivo, nloads, nsaves, antes>>

NextCorrida ==
    \/ \E c \in ChamadoresCorrida, e \in EntradasCorrida :
           /\ nloads < MaxCargas
           /\ ComecaAgendar(c, Ana, e[1], e[2])
    \/ \E c \in ChamadoresCorrida, consulta_id \in 1..MaxConsultas :
           /\ nloads < MaxCargas
           /\ ComecaCancelar(c, consulta_id)
    \/ \E c \in ChamadoresCorrida : Salva(c)
    \/ \E c \in ChamadoresCorrida : Retorna(c)

SpecCorrida == InitCorrida /\ [][NextCorrida]_vars

\* C26: whatever the interleaving of the loads and saves of the callers,
\* the file never holds two records with the same id, nor two records with
\* status marcada whose intervals intersect.
C26_RacesKeepFileConsistent ==
    /\ \A i, j \in 1..Len(arquivo.conteudo) :
          i < j => arquivo.conteudo[i].id # arquivo.conteudo[j].id
    /\ \A i, j \in Marcadas(arquivo.conteudo) :
          i < j => ~Intersecta(InicioDe(arquivo.conteudo[i]),
                               InicioDe(arquivo.conteudo[j]))

\* the three callers loaded the empty repository and each was told that it
\* scheduled the record with id 1, the intervals of c1 and c2 and of c2 and
\* c3 intersecting; the file holds one of the three records
C26_Witness ==
    /\ \A c \in ChamadoresCorrida :
          /\ chamada[c].pc = "fim"
          /\ chamada[c].op = "agendar_consulta"
          /\ ret[c].kind = "return"
          /\ ret[c].consulta # <<>>
          /\ ret[c].consulta[1].id = 1
          /\ chamada[c].lido = 0
    /\ Intersecta(InicioDe(ret["c1"].consulta[1]), InicioDe(ret["c2"].consulta[1]))
    /\ Intersecta(InicioDe(ret["c2"].consulta[1]), InicioDe(ret["c3"].consulta[1]))
    /\ ret["c1"].consulta # ret["c2"].consulta
    /\ ret["c2"].consulta # ret["c3"].consulta
    /\ nsaves = 3
    /\ Len(arquivo.conteudo) = 1
====
